---- MODULE Spec2Model ----
(***************************************************************************)
(* Model of the automation execution engine of py-auto-api:                *)
(*   backend/app/api/routes/tasks.py         (request handlers)            *)
(*   backend/app/services/task_service.py    (task rows, status updates)   *)
(*   backend/app/services/execution_service.py (execute_task, batches)     *)
(*   backend/app/services/automation_service.py (launch_browser, ...)      *)
(*   backend/app/services/browser_manager.py (session registry)            *)
(*   backend/app/api/routes/editor.py        (editor connections)          *)
(*   backend/app/services/browser_recorder.py (recordings)                 *)
(*                                                                         *)
(* Scheduling.  The handlers are coroutines on one asyncio event loop, so  *)
(* the code between two real suspension points is one atomic action.       *)
(* update_task_status, get_task, stop_task and _log_execution contain no   *)
(* suspension point (synchronous SQLAlchemy calls); the awaits inside      *)
(* BrowserManager.launch_browser (playwright start, launch, new_context,   *)
(* new_page) are real suspension points.  A background run therefore       *)
(* consists of: scheduled -> (lines 29-56, up to the launch) -> suspended  *)
(* in the launch -> (rest of the launch and everything after it) -> done.  *)
(*                                                                         *)
(* Environment.  The record store is assumed to answer every call; the     *)
(* browser library may raise in any launch.                                *)
(*                                                                         *)
(* execute_task calls AutomationService.launch_browser(None)               *)
(* (execution_service.py:56).  With config = None the construction of the  *)
(* BrowserSession row dereferences config.browser_type                     *)
(* (automation_service.py:364) and raises AttributeError after             *)
(* BrowserManager.launch_browser has already registered the session.  The  *)
(* call is outside the inner try/finally (execution_service.py:59-124),    *)
(* so control goes to the handler at lines 126-134: no run of              *)
(* execute_task ever reaches lines 57-124 (navigation, the step loop, the  *)
(* counter update, the final status, close_session).  Those lines have no  *)
(* action here; the pure decision they contain (lines 103-111) is the      *)
(* operator FinalStatus, examined on its own under SpecFinal.              *)
(*                                                                         *)
(* Specifications.  Spec: the requests and background runs of the engine.  *)
(* SpecFinal: the final-status decision over all tallies.  SpecSessions:   *)
(* one BrowserManager under overlapping launch, close and close-all calls, *)
(* and the close route.  SpecStep: execute_step over all steps.  SpecWait:  *)
(* _execute_wait over all parameter maps and timeouts.  SpecEditor: the    *)
(* editor connection manager under websocket endpoints, a route's send, a  *)
(* broadcast and the close route.  SpecStopExecution: the engine with      *)
(* stop_execution called on its records.  SpecStopTask: one task row with  *)
(* its timestamps under status writes and stop_task.  SpecRecorder: the    *)
(* recordings of one BrowserRecorder.  SpecPreview: one call of            *)
(* preview_automation.                                                     *)
(***************************************************************************)
EXTENDS Naturals, Sequences, FiniteSets

\* ------------------------------------------------------------------ bounds
MaxTasks == 2
MaxSteps == 1
MaxRuns == 2
MaxBatch == 2
MaxTally == 8
MaxLaunch == 2
MaxClose == 2
MaxWait == 3
MaxSockets == 2
MaxEditorSessions == 2
MaxInbound == 1
MaxCalls == 1
MaxClock == 5
MaxRecSessions == 2
MaxRecorded == 3
MaxPreviewSteps == 2

TaskIds == 1..MaxTasks
Runs == 1..MaxRuns

\* Calls of launch_browser and of close_session under observation.  A
\* session id (a fresh uuid per launch) and an engine are named by the
\* launch call that produced them.
Launches == 1..MaxLaunch
Closes == 1..MaxClose

\* Task.status values (schemas/__init__.py TaskStatus); "none" = no such row.
TaskStatus == {"pending", "running", "completed", "failed", "cancelled"}

\* Task.error_message, by the code line that produces the text.
NoMsg == "null"
MsgNoSteps == "no_steps_configured"
MsgException == "execution_exception"
MsgUserStop == "user_stopped"
MsgPartial == "partial_failure"
MsgAllFailed == "all_steps_failed"

VARIABLES
  status,            \* tasks.status per task id ("none": row absent)
  error_message,     \* tasks.error_message
  execution_count,   \* tasks.execution_count
  success_count,     \* tasks.success_count
  failure_count,     \* tasks.failure_count
  nsteps,            \* number of automation_steps rows per task id
  initPc,            \* position of the background initialize_task per task
  executeReply,      \* the error reply of POST /tasks/{id}/execute when
                     \* that was the request handled last ("none" else)
  pc,                \* position of each background run of execute_task
  runTask,           \* task_id argument of the run (0: slot unused)
  runSvc,            \* the ExecutionService instance the run belongs to,
                     \* named by its first run (0: slot unused)
  runExec,           \* execution_id argument of the run
  snapshot,          \* len(steps) read by the run (lines 45-47)
  result,            \* how the run returned
  dispatched,        \* steps the run passed to execute_step (line 82)
  cancelledInFlight, \* stop_task hit the task while the run was in flight
  batchPc,           \* position of batch_execute_tasks per service
  batchIds,          \* task_ids argument of the batch
  active_executions, \* ExecutionService.active_executions, all services
  active_browsers,   \* BrowserManager.active_browsers per service
  nextRun,           \* next unused run slot
  queried,           \* get_execution_status was called with the run's
                     \* execution id, on the run's service, after the run
                     \* had returned
  playwright,        \* BrowserManager.playwright per service: the engine
                     \* held (0: None); an engine is named by the launch
                     \* call that started it
  alive,             \* engines started and not stopped
  lpc,               \* position of each call of launch_browser
  lmgr,              \* the service (and so the manager) it runs on
  lcfg,              \* its config argument
  leng,              \* the engine its browser process is launched from
  lret,              \* how the call returned
  cpc,               \* position of each call of close_session
  cmgr,              \* the service it runs on
  csid,              \* its session_id argument
  cret,              \* its return value
  capc,              \* position of close_all_sessions per service
  caleft,            \* session ids its loop has still to close
  casnap,            \* session_ids as listed at its start
  browser_sessions,  \* the browser_sessions row per session id
  closeReply,        \* reply of DELETE /automation/sessions/{id} per id
  stepIn,            \* SpecStep: the arguments of one call of execute_step
  stepOut,           \* SpecStep: what the call did
  wsPc,              \* position of editor_websocket_endpoint per socket
  wsSid,             \* its session_id path parameter (0: socket unused)
  wsOpen,            \* the client's end of the socket is open
  wsMsg,             \* the message its send_message call is sending
  wsTarget,          \* the socket that call looked up and sends on
  active_connections, \* EditorConnectionManager.active_connections: the
                     \* dict's entries in insertion order
  session_info,      \* EditorConnectionManager.session_info per session id
  outbox,            \* message types delivered to each socket, in order
  inbound,           \* number of client messages received so far
  sendPc,            \* position of a send_message call made by a route
  sendSid,           \* its session_id argument
  sendTarget,        \* the socket it looked up
  sendOutcome,       \* what the call did before it returned
  bcPc,              \* position of a broadcast call
  bcExclude,         \* its exclude_session argument (0: None)
  bcPos,             \* its iterator: index of the next entry to look at
  bcUsed,            \* its iterator: size of the dict when it was made
  bcLeft,            \* its iterator: items still to be yielded
  bcTarget,          \* the entry whose send it is waiting for
  waitIn,            \* SpecWait: the step one call of _execute_wait is given
  waitOut,           \* SpecWait: what the call slept and reported
  tally,             \* SpecFinal: (success_count, failed_count, len(steps))
  final,             \* SpecFinal: (final_status, error_message) computed
  task,              \* SpecStopTask: one tasks row with its timestamps
  now,               \* SpecStopTask: the reading of datetime.now()
  stopReply,         \* SpecStopTask: what stop_task returned when it was
                     \* the operation performed last ("none" else)
  user_sessions,     \* SpecRecorder: session ids with a user_sessions row
  active_recordings, \* SpecRecorder: BrowserRecorder.active_recordings
  recReply,          \* SpecRecorder: the recorder call performed last, its
                     \* session id and how it returned
  pvPc,              \* SpecPreview: position of one preview_automation call
  pvTask,            \* its task_id argument (0: no call yet)
  pvUrl,             \* task.url is truthy
  pvSteps,           \* the steps it read, in step_order
  pvPos,             \* the step its loop is at
  pvRegistry,        \* active_browsers of its BrowserManager
  pvResults,         \* preview_result["results"]
  pvExecuted,        \* preview_result["executed_steps"]
  pvTrace            \* what the call has done so far: session launched,
                     \* steps passed to execute_step, close_session called
                     \* and whether the library's closes returned, and an
                     \* exception on its way out

vars == <<status, error_message, execution_count, success_count,
          failure_count, nsteps, initPc, executeReply, pc, runTask, runSvc,
          runExec, snapshot,
          result, dispatched, cancelledInFlight, batchPc, batchIds,
          active_executions, active_browsers, nextRun, queried, tally,
          final, playwright, alive, lpc, lmgr, lcfg, leng, lret, cpc, cmgr,
          csid, cret, capc, caleft, casnap, browser_sessions, closeReply,
          stepIn, stepOut, waitIn, waitOut, wsPc, wsSid, wsOpen, wsMsg,
          wsTarget, active_connections, session_info, outbox, inbound,
          sendPc, sendSid, sendTarget, sendOutcome, bcPc, bcExclude, bcPos,
          bcUsed,
          bcLeft, bcTarget, task, now, stopReply, user_sessions,
          active_recordings, recReply, pvPc, pvTask, pvUrl, pvSteps,
          pvPos, pvRegistry, pvResults, pvExecuted, pvTrace>>

rowVars == <<status, error_message, execution_count, success_count,
             failure_count, nsteps, initPc>>
taskVars == <<rowVars, executeReply>>
runVars == <<pc, runTask, runSvc, runExec, snapshot, result, dispatched,
             cancelledInFlight, nextRun>>
batchVars == <<batchPc, batchIds>>
finalVars == <<tally, final>>
queryVars == <<queried>>
launchVars == <<lpc, lmgr, lcfg, leng, lret>>
closeVars == <<cpc, cmgr, csid, cret>>
closeAllVars == <<capc, caleft, casnap>>
managerVars == <<playwright, alive, launchVars, closeVars, closeAllVars,
                 browser_sessions, closeReply>>
stepVars == <<stepIn, stepOut>>
waitVars == <<waitIn, waitOut>>
endpointVars == <<wsPc, wsSid, wsOpen, wsMsg, wsTarget, inbound>>
registryVars == <<active_connections, session_info>>
sendVars == <<sendPc, sendSid, sendTarget, sendOutcome>>
broadcastVars == <<bcPc, bcExclude, bcPos, bcUsed, bcLeft, bcTarget>>
editorVars == <<endpointVars, registryVars, outbox, sendVars, broadcastVars>>
stopVars == <<task, now, stopReply>>
recorderVars == <<user_sessions, active_recordings, recReply>>
previewVars == <<pvPc, pvTask, pvUrl, pvSteps, pvPos, pvRegistry,
                 pvResults, pvExecuted, pvTrace>>
extraVars == <<stopVars, recorderVars, previewVars>>
auxVars == <<waitVars, editorVars, extraVars>>
engineVars == <<taskVars, runVars, batchVars, active_executions, finalVars,
                queryVars, stepVars, auxVars>>

\* ------------------------------------------------------------ task service

\* No error reply of POST /tasks/{id}/execute to show.
NoReply == "none"

\* update_task_status: the row is looked up; a missing row returns at once,
\* else the status is overwritten whatever it was.
StatusAfter(st, t, s) ==
  IF st[t] = "none" THEN st ELSE [st EXCEPT ![t] = s]

\* update_task_status: error_message is written only when it is truthy.
ErrorAfter(st, em, t, m) ==
  IF st[t] = "none" \/ m = NoMsg THEN em ELSE [em EXCEPT ![t] = m]

\* ------------------------------------------------------- execution records

\* An execution id: the single run of a task (exec_<task>_<ts>), the batch
\* (batch_<ts>) or a batch member (<batch>_task_<task>).
ExecId(kind, t) == <<kind, t>>

\* active_executions[execution_id] = {...} of one service: replaces an entry
\* with the same key.
PutRecord(recs, svc, eid, st) ==
  {x \in recs : ~(x.svc = svc /\ x.eid = eid)}
    \cup {[svc |-> svc, eid |-> eid, status |-> st]}

\* active_executions[batch_id] = {...} (execution_service.py:141-150): the
\* batch record with its aggregate fields, both tallies written as 0.
PutBatchRecord(recs, svc, eid, n) ==
  {x \in recs : ~(x.svc = svc /\ x.eid = eid)}
    \cup {[svc |-> svc, eid |-> eid, status |-> "running", total_tasks |-> n,
           completed_tasks |-> 0, failed_tasks |-> 0]}

\* active_executions[execution_id]["status"] = st: the other fields of the
\* record are kept.
SetRecordStatus(recs, svc, eid, st) ==
  {IF x.svc = svc /\ x.eid = eid THEN [x EXCEPT !.status = st] ELSE x :
     x \in recs}

\* get_execution_status (execution_service.py:180-182):
\* self.active_executions.get(execution_id, {}), a lookup that changes
\* nothing.  The reply is the set holding the record, empty for {}.
get_execution_status(recs, svc, eid) ==
  {x \in recs : x.svc = svc /\ x.eid = eid}

\* if execution_id in self.active_executions: del ...
DelRecord(recs, svc, eid) ==
  {x \in recs : ~(x.svc = svc /\ x.eid = eid)}

\* ------------------------------------------------------------------- state

NoExec == <<"none", 0>>

\* BrowserManager.__init__ (no session, no engine), no call in progress,
\* an empty browser_sessions table.
InitManager ==
  /\ playwright = [m \in Runs |-> 0]
  /\ alive = {}
  /\ lpc = [l \in Launches |-> "idle"]
  /\ lmgr = [l \in Launches |-> 0]
  /\ lcfg = [l \in Launches |-> "none"]
  /\ leng = [l \in Launches |-> 0]
  /\ lret = [l \in Launches |-> "none"]
  /\ cpc = [c \in Closes |-> "idle"]
  /\ cmgr = [c \in Closes |-> 0]
  /\ csid = [c \in Closes |-> 0]
  /\ cret = [c \in Closes |-> "none"]
  /\ capc = [m \in Runs |-> "idle"]
  /\ caleft = [m \in Runs |-> {}]
  /\ casnap = [m \in Runs |-> {}]
  /\ browser_sessions = [i \in Launches |-> "none"]
  /\ closeReply = [i \in Launches |-> "none"]

Sockets == 1..MaxSockets
EditorSessions == 1..MaxEditorSessions

\* The slot of a deleted entry of a dict.
Deleted == [sid |-> 0, ws |-> 0]

\* No metadata under a session id.
NoInfo == [present |-> FALSE, recording |-> "unset", status |-> "unset"]

\* The editor_manager of routes/editor.py as constructed (editor.py:28-30,
\* 61): no connection, no metadata; no socket has been opened and no call is
\* under way.
InitEditor ==
  /\ wsPc = [w \in Sockets |-> "idle"]
  /\ wsSid = [w \in Sockets |-> 0]
  /\ wsOpen = [w \in Sockets |-> FALSE]
  /\ wsMsg = [w \in Sockets |-> "none"]
  /\ wsTarget = [w \in Sockets |-> 0]
  /\ active_connections = <<>>
  /\ session_info = [i \in EditorSessions |-> NoInfo]
  /\ outbox = [w \in Sockets |-> <<>>]
  /\ inbound = 0
  /\ sendPc = "idle"
  /\ sendSid = 0
  /\ sendTarget = 0
  /\ sendOutcome = "none"
  /\ bcPc = "idle"
  /\ bcExclude = 0
  /\ bcPos = 1
  /\ bcUsed = 0
  /\ bcLeft = 0
  /\ bcTarget = Deleted

\* No tasks row under observation, the clock at its first reading.
NoTask ==
  [present |-> FALSE, status |-> "none", started_at |-> <<>>,
   completed_at |-> <<>>, updated_at |-> <<>>, error_message |-> NoMsg]

InitStopTask ==
  /\ task = NoTask
  /\ now = 0
  /\ stopReply = NoReply

RecSessions == 1..MaxRecSessions

\* self.active_recordings = {} (browser_recorder.py:21): no key is present.
NoRecording ==
  [present |-> FALSE, is_recording |-> FALSE, steps |-> <<>>,
   step_counter |-> 0]

NoRecReply == [op |-> "none", sid |-> 0, ret |-> "none"]

InitRecorder ==
  /\ user_sessions = {}
  /\ active_recordings = [i \in RecSessions |-> NoRecording]
  /\ recReply = NoRecReply

NoTrace ==
  [launched |-> FALSE, dispatched |-> 0, closeCalled |-> FALSE,
   closeLibOk |-> FALSE, raising |-> FALSE]

InitPreview ==
  /\ pvPc = "idle"
  /\ pvTask = 0
  /\ pvUrl = FALSE
  /\ pvSteps = <<>>
  /\ pvPos = 1
  /\ pvRegistry = {}
  /\ pvResults = <<>>
  /\ pvExecuted = 0
  /\ pvTrace = NoTrace

InitEngine ==
  /\ InitManager
  /\ InitEditor
  /\ InitStopTask
  /\ InitRecorder
  /\ InitPreview
  /\ status = [t \in TaskIds |-> "none"]
  /\ error_message = [t \in TaskIds |-> NoMsg]
  /\ execution_count = [t \in TaskIds |-> 0]
  /\ success_count = [t \in TaskIds |-> 0]
  /\ failure_count = [t \in TaskIds |-> 0]
  /\ nsteps = [t \in TaskIds |-> 0]
  /\ initPc = [t \in TaskIds |-> "idle"]
  /\ executeReply = NoReply
  /\ pc = [r \in Runs |-> "free"]
  /\ runTask = [r \in Runs |-> 0]
  /\ runSvc = [r \in Runs |-> 0]
  /\ runExec = [r \in Runs |-> NoExec]
  /\ snapshot = [r \in Runs |-> 0]
  /\ result = [r \in Runs |-> "none"]
  /\ dispatched = [r \in Runs |-> <<>>]
  /\ cancelledInFlight = [r \in Runs |-> FALSE]
  /\ batchPc = [s \in Runs |-> "none"]
  /\ batchIds = [s \in Runs |-> <<>>]
  /\ active_executions = {}
  /\ active_browsers = [s \in Runs |-> {}]
  /\ nextRun = 1
  /\ queried = [r \in Runs |-> FALSE]

\* No call of execute_step under observation.
NoStepIn ==
  [action_type |-> "none", target_selector |-> FALSE, target_text |-> FALSE,
   target_url |-> FALSE, wait_time |-> "zero", session_id |-> 1,
   registry |-> {}, libOk |-> FALSE]
NoStepOut == [result |-> "none", acted |-> FALSE, log |-> <<>>]

\* No final status under computation.
InitNoFinal ==
  /\ tally = <<0, 0, 0>>
  /\ final = <<"none", NoMsg>>

InitNoStep ==
  /\ stepIn = NoStepIn
  /\ stepOut = NoStepOut

\* No call of _execute_wait under observation.
NoWaitIn == [parameters |-> <<>>, timeout |-> <<>>]
NoWaitOut == [result |-> "none", slept |-> <<>>, duration |-> <<>>]

InitNoWait ==
  /\ waitIn = NoWaitIn
  /\ waitOut = NoWaitOut

Init ==
  /\ InitEngine
  /\ InitNoFinal
  /\ InitNoStep
  /\ InitNoWait

\* ---------------------------------------------------------------- requests

\* The error message of initialize_task for a task without url
\* (task_service.py:127).
MsgNoUrl == "missing_url"

\* POST /tasks -> TaskService.create_task (tasks.py:19-35,
\* task_service.py:22-43): a new row, status "pending" and the three
\* counters 0 by the column defaults; ids are handed out in order.  The
\* route schedules initialize_task in the background.  url tells whether
\* the url given is non-empty (TaskCreate takes any string); for a task with
\* a url initialize_task writes nothing, so only the other case is kept as
\* pending work.
CreateTask(t, url) ==
  /\ status[t] = "none"
  /\ \A u \in TaskIds : u < t => status[u] # "none"
  /\ status' = [status EXCEPT ![t] = "pending"]
  /\ initPc' = [initPc EXCEPT ![t] = IF url THEN "idle" ELSE "scheduled"]
  /\ UNCHANGED <<error_message, execution_count, success_count,
                 failure_count, nsteps>>
  /\ UNCHANGED <<runVars, batchVars, active_executions, active_browsers,
                 finalVars, queryVars, managerVars, stepVars, auxVars>>
  /\ executeReply' = NoReply

\* POST /automation/steps -> AutomationService.create_step: one more step row
\* for the task id (the id is not checked against the tasks table).
CreateStep(t) ==
  /\ nsteps[t] < MaxSteps
  /\ nsteps' = [nsteps EXCEPT ![t] = @ + 1]
  /\ UNCHANGED <<status, error_message, execution_count, success_count,
                 failure_count, initPc>>
  /\ UNCHANGED <<runVars, batchVars, active_executions, active_browsers,
                 finalVars, queryVars, managerVars, stepVars, auxVars>>
  /\ executeReply' = NoReply

\* The status test of POST /tasks/{id}/execute (tasks.py:123).
RejectsExecuteMut(st) == FALSE
RejectsExecute(st) == st = "running"

\* POST /tasks/{id}/execute: 404 for a missing row, 400 for a running task,
\* else a background run of execute_task on a fresh ExecutionService.  The
\* run starts after the response has been sent.
ExecuteTaskRequest(t) ==
  /\ status[t] # "none"
  /\ ~RejectsExecute(status[t])
  /\ nextRun <= MaxRuns
  /\ pc' = [pc EXCEPT ![nextRun] = "scheduled"]
  /\ runTask' = [runTask EXCEPT ![nextRun] = t]
  /\ runSvc' = [runSvc EXCEPT ![nextRun] = nextRun]
  /\ runExec' = [runExec EXCEPT ![nextRun] = ExecId("exec", t)]
  /\ nextRun' = nextRun + 1
  /\ UNCHANGED <<snapshot, result, dispatched, cancelledInFlight>>
  /\ UNCHANGED <<rowVars, batchVars, active_executions, active_browsers,
                 finalVars, queryVars, managerVars, stepVars, auxVars>>
  /\ executeReply' = NoReply

\* POST /tasks/{id}/execute answered with an error (tasks.py:119-124): 404
\* for a missing row, 400 for a task that is running; nothing is scheduled
\* and nothing is written.
ExecuteTaskRejected(t) ==
  /\ status[t] = "none" \/ RejectsExecute(status[t])
  /\ executeReply' = IF status[t] = "none" THEN "not_found"
                     ELSE "already_running"
  /\ UNCHANGED <<rowVars, runVars, batchVars, active_executions,
                 active_browsers, finalVars, queryVars, managerVars,
                 stepVars, auxVars>>

\* initialize_task, run in the background after POST /tasks has answered
\* (task_service.py:117-142), for a task whose url is empty: the task is
\* marked failed through update_task_status, whatever its status is by
\* then.
InitializeTask(t) ==
  /\ initPc[t] = "scheduled"
  /\ initPc' = [initPc EXCEPT ![t] = "idle"]
  /\ status' = StatusAfter(status, t, "failed")
  /\ error_message' = ErrorAfter(status, error_message, t, MsgNoUrl)
  /\ UNCHANGED <<execution_count, success_count, failure_count, nsteps>>
  /\ UNCHANGED <<runVars, batchVars, active_executions, active_browsers,
                 finalVars, queryVars, managerVars, stepVars, auxVars>>
  /\ executeReply' = NoReply

\* The task_ids lists a batch request may carry.
BatchLists ==
  UNION {[1..n -> TaskIds] : n \in 1..MaxBatch}

\* POST /tasks/batch/execute: a non-empty list schedules batch_execute_tasks
\* in the background on a fresh ExecutionService; no task row is read.
BatchExecuteRequest(ids) ==
  /\ nextRun + Len(ids) - 1 <= MaxRuns
  /\ batchPc' = [batchPc EXCEPT ![nextRun] = "scheduled"]
  /\ batchIds' = [batchIds EXCEPT ![nextRun] = ids]
  /\ LET members == nextRun..(nextRun + Len(ids) - 1) IN
       /\ pc' = [r \in Runs |-> IF r \in members THEN "queued" ELSE pc[r]]
       /\ runTask' = [r \in Runs |->
                        IF r \in members THEN ids[r - nextRun + 1]
                        ELSE runTask[r]]
       /\ runSvc' = [r \in Runs |->
                       IF r \in members THEN nextRun ELSE runSvc[r]]
       /\ runExec' = [r \in Runs |->
                        IF r \in members
                        THEN ExecId("member", ids[r - nextRun + 1])
                        ELSE runExec[r]]
  /\ nextRun' = nextRun + Len(ids)
  /\ UNCHANGED <<snapshot, result, dispatched, cancelledInFlight>>
  /\ UNCHANGED <<rowVars, active_executions, active_browsers, finalVars, queryVars, managerVars, stepVars, auxVars>>
  /\ executeReply' = NoReply

\* The statuses stop_task cancels (task_service.py:296).
StoppableMut(st) == st \in {"running", "pending", "failed"}
Stoppable(st) == st \in {"running", "pending"}

\* POST /tasks/{id}/stop -> TaskService.stop_task.
StopTask(t) ==
  /\ status[t] # "none"
  /\ Stoppable(status[t])
  /\ status' = StatusAfter(status, t, "cancelled")
  /\ error_message' = ErrorAfter(status, error_message, t, MsgUserStop)
  /\ cancelledInFlight' =
       [r \in Runs |-> cancelledInFlight[r]
                         \/ (runTask[r] = t /\ pc[r] = "launching")]
  /\ UNCHANGED <<execution_count, success_count, failure_count, nsteps, initPc>>
  /\ UNCHANGED <<pc, runTask, runSvc, runExec, snapshot, result, dispatched,
                 nextRun>>
  /\ UNCHANGED <<batchVars, active_executions, active_browsers, finalVars, queryVars, managerVars, stepVars, auxVars>>
  /\ executeReply' = NoReply

\* The execution ids a service can hold a record under.
ExecIds ==
  {ExecId("batch", 0)}
    \cup {ExecId(k, t) : k \in {"exec", "member"}, t \in TaskIds}

\* The task ids stop_execution calls stop_task on
\* (execution_service.py:196-203): the task_ids of a batch record, the
\* task_id of a run's record.
StopTargets(s, eid) ==
  IF eid = ExecId("batch", 0)
  THEN {batchIds[s][i] : i \in DOMAIN batchIds[s]}
  ELSE {eid[2]}

\* ExecutionService.stop_execution on an id that is in active_executions
\* (execution_service.py:184-205): the record's status becomes "stopped" and
\* stop_task is called on each of its task ids, cancelling the ones that are
\* running or pending.  Nothing is awaited that suspends.  (An id that is
\* not in active_executions returns False at line 188 and writes nothing.)
StopExecution(s, eid) ==
  /\ get_execution_status(active_executions, s, eid) # {}
  /\ active_executions' = SetRecordStatus(active_executions, s, eid, "stopped")
  /\ LET ts == {t \in StopTargets(s, eid) : Stoppable(status[t])} IN
       /\ status' = [t \in TaskIds |->
                       IF t \in ts THEN "cancelled" ELSE status[t]]
       /\ error_message' = [t \in TaskIds |->
                              IF t \in ts THEN MsgUserStop
                              ELSE error_message[t]]
       /\ cancelledInFlight' =
            [r \in Runs |-> cancelledInFlight[r]
                              \/ (runTask[r] \in ts /\ pc[r] = "launching")]
  /\ UNCHANGED <<execution_count, success_count, failure_count, nsteps, initPc>>
  /\ UNCHANGED <<pc, runTask, runSvc, runExec, snapshot, result, dispatched,
                 nextRun>>
  /\ UNCHANGED <<batchVars, active_browsers, finalVars, queryVars, managerVars, stepVars, auxVars>>
  /\ executeReply' = NoReply

\* ---------------------------------------------------------- background runs

\* batch_execute_tasks up to the gather (execution_service.py:138-162): the
\* batch record is written and one execute_task coroutine is created per
\* listed id, with execution id <batch>_task_<task_id>; no task row is read.
BatchStart(s) ==
  /\ batchPc[s] = "scheduled"
  /\ batchPc' = [batchPc EXCEPT ![s] = "gathering"]
  /\ active_executions' =
       PutBatchRecord(active_executions, s, ExecId("batch", 0),
                      Len(batchIds[s]))
  /\ pc' = [r \in Runs |->
              IF runSvc[r] = s /\ pc[r] = "queued" THEN "scheduled" ELSE pc[r]]
  /\ UNCHANGED <<runTask, runSvc, runExec, snapshot, result, dispatched,
                 cancelledInFlight, nextRun>>
  /\ UNCHANGED <<rowVars, batchIds, active_browsers, finalVars, queryVars, managerVars, stepVars, auxVars>>
  /\ executeReply' = NoReply

\* asyncio.gather(*tasks, return_exceptions=True) (execution_service.py:162)
\* returns when every member coroutine of the batch has returned.
GatherReturnsMut(s) == \E r \in Runs : runSvc[r] = s /\ pc[r] = "done"
GatherReturns(s) == \A r \in Runs : runSvc[r] = s => pc[r] = "done"

\* batch_execute_tasks after the gather (execution_service.py:164-169): all
\* member coroutines have returned; the status of the batch record is set
\* to "completed", its other fields stay as they were written at the start,
\* and the record stays in active_executions.
BatchFinish(s) ==
  /\ batchPc[s] = "gathering"
  /\ GatherReturns(s)
  /\ batchPc' = [batchPc EXCEPT ![s] = "done"]
  /\ active_executions' =
       SetRecordStatus(active_executions, s, ExecId("batch", 0), "completed")
  /\ UNCHANGED <<rowVars, runVars, batchIds, active_browsers, finalVars, queryVars, managerVars, stepVars, auxVars>>
  /\ executeReply' = NoReply

\* `if not steps` (execution_service.py:49).
NoStepsMut(n) == FALSE
NoSteps(n) == n = 0

\* execute_task from its entry to the launch (execution_service.py:29-56):
\* the execution record is written, the task is marked running whatever its
\* status was, the steps are read; with no steps the task is marked failed
\* and the coroutine returns (the record stays), else it suspends in
\* launch_browser.
RunStart(r) ==
  /\ pc[r] = "scheduled"
  /\ LET t == runTask[r]
         running == StatusAfter(status, t, "running")
     IN
       /\ active_executions' =
            PutRecord(active_executions, runSvc[r], runExec[r], "running")
       /\ snapshot' = [snapshot EXCEPT ![r] = nsteps[t]]
       /\ IF NoSteps(nsteps[t])
          THEN /\ status' = StatusAfter(running, t, "failed")
               /\ error_message' =
                    ErrorAfter(running, error_message, t, MsgNoSteps)
               /\ pc' = [pc EXCEPT ![r] = "done"]
               /\ result' = [result EXCEPT ![r] = "no_steps"]
          ELSE /\ status' = running
               /\ UNCHANGED error_message
               /\ pc' = [pc EXCEPT ![r] = "launching"]
               /\ UNCHANGED result
  /\ UNCHANGED <<execution_count, success_count, failure_count, nsteps, initPc>>
  /\ UNCHANGED <<runTask, runSvc, runExec, dispatched, cancelledInFlight,
                 nextRun>>
  /\ UNCHANGED <<batchVars, active_browsers, finalVars, queryVars, managerVars, stepVars, auxVars>>
  /\ executeReply' = NoReply

\* The config argument execute_task passes to launch_browser
\* (execution_service.py:56).
LaunchConfig == "None"

\* AutomationService.launch_browser after the manager's launch returned
\* (automation_service.py:361-368): config.browser_type on a None config
\* raises AttributeError.
SessionRowRaises(config) == config = "None"

\* The handler of execute_task (execution_service.py:126-134) marks the task
\* failed.
HandlerStatusAfterMut(st, t) == st
HandlerStatusAfter(st, t) == StatusAfter(st, t, "failed")

\* execute_task from the launch to its return.  The browser library either
\* raises (nothing is registered) or BrowserManager.launch_browser registers
\* the new session (browser_manager.py:74) and returns, after which
\* AutomationService.launch_browser raises on the None config.  Either way
\* the exception leaves launch_browser at line 56, outside the try/finally
\* that closes the session, and the handler at lines 126-134 marks the task
\* failed with the exception text and drops the execution record.  The
\* session id (a fresh uuid) is named by the run that launched it.
RunLaunch(r) ==
  /\ pc[r] = "launching"
  /\ \E libOk \in BOOLEAN :
       LET t == runTask[r] IN
         /\ ~libOk \/ SessionRowRaises(LaunchConfig)
         /\ active_browsers' =
              IF libOk
              THEN [active_browsers EXCEPT ![runSvc[r]] = @ \cup {r}]
              ELSE active_browsers
         /\ result' = [result EXCEPT ![r] =
                         IF libOk THEN "config_error" ELSE "library_error"]
         /\ status' = HandlerStatusAfter(status, t)
         /\ error_message' = ErrorAfter(status, error_message, t, MsgException)
         /\ active_executions' =
              DelRecord(active_executions, runSvc[r], runExec[r])
         /\ pc' = [pc EXCEPT ![r] = "done"]
  /\ UNCHANGED <<execution_count, success_count, failure_count, nsteps, initPc>>
  /\ UNCHANGED <<runTask, runSvc, runExec, snapshot, dispatched,
                 cancelledInFlight, nextRun>>
  /\ UNCHANGED <<batchVars, finalVars, queryVars, managerVars, stepVars, auxVars>>
  /\ executeReply' = NoReply

\* A caller holding the run's ExecutionService asks for the status of the
\* run's execution id after the run has returned
\* (execution_service.py:180-182).  The reply is
\* get_execution_status(active_executions, runSvc[r], runExec[r]); the
\* lookup leaves active_executions as it is.
StatusQuery(r) ==
  /\ pc[r] = "done"
  /\ ~queried[r]
  /\ queried' = [queried EXCEPT ![r] = TRUE]
  /\ UNCHANGED <<rowVars, runVars, batchVars, active_executions,
                 active_browsers, finalVars, managerVars, stepVars, auxVars>>
  /\ executeReply' = NoReply

Next ==
  \/ \E t \in TaskIds, url \in BOOLEAN : CreateTask(t, url)
  \/ \E t \in TaskIds : InitializeTask(t)
  \/ \E t \in TaskIds : CreateStep(t)
  \/ \E t \in TaskIds : ExecuteTaskRequest(t)
  \/ \E t \in TaskIds : ExecuteTaskRejected(t)
  \/ \E ids \in BatchLists : BatchExecuteRequest(ids)
  \/ \E t \in TaskIds : StopTask(t)
  \/ \E s \in Runs : BatchStart(s)
  \/ \E s \in Runs : BatchFinish(s)
  \/ \E r \in Runs : RunStart(r)
  \/ \E r \in Runs : RunLaunch(r)
  \/ \E r \in Runs : StatusQuery(r)

Spec == Init /\ [][Next]_vars

\* The engine with stop_execution called on the services' records: tasks,
\* single and batch requests, the runs and the batch coroutine.
NextStopExecution ==
  \/ \E t \in TaskIds, url \in BOOLEAN : CreateTask(t, url)
  \/ \E t \in TaskIds : CreateStep(t)
  \/ \E t \in TaskIds : ExecuteTaskRequest(t)
  \/ \E ids \in BatchLists : BatchExecuteRequest(ids)
  \/ \E s \in Runs, eid \in ExecIds : StopExecution(s, eid)
  \/ \E s \in Runs : BatchStart(s)
  \/ \E s \in Runs : BatchFinish(s)
  \/ \E r \in Runs : RunStart(r)
  \/ \E r \in Runs : RunLaunch(r)

SpecStopExecution == Init /\ [][NextStopExecution]_vars

\* ------------------------------------------------- the final-status decision

\* The final status of a run from its tallies (execution_service.py:103-111).
FinalStatus(s, f) ==
  IF f = 0 THEN "completed"
  ELSE IF s > 0 THEN "completed"
  ELSE "failed"

\* The error note that goes with it (execution_service.py:105-111).
FinalMessage(s, f) ==
  IF f = 0 THEN NoMsg
  ELSE IF s > 0 THEN MsgPartial
  ELSE MsgAllFailed

\* The tallies the loop can hand to the decision: a task with n >= 1 steps
\* (a task without steps returns at line 53), every dispatched step counted
\* once as success or failure, and a cancellation leaving the rest undone.
Tallies ==
  {<<s, f, n>> : s \in 0..MaxTally, f \in 0..MaxTally, n \in 1..MaxTally}

InitFinal ==
  /\ InitEngine
  /\ tally \in {x \in Tallies : x[1] + x[2] <= x[3]}
  /\ final = <<"none", NoMsg>>
  /\ InitNoStep
  /\ InitNoWait

ComputeFinal ==
  /\ final[1] = "none"
  /\ final' = <<FinalStatus(tally[1], tally[2]),
                FinalMessage(tally[1], tally[2])>>
  /\ UNCHANGED <<taskVars, runVars, batchVars, active_executions,
                 active_browsers, tally, queryVars, managerVars, stepVars, auxVars>>

NextFinal == ComputeFinal

SpecFinal == InitFinal /\ [][NextFinal]_vars

\* ------------------------------------------- the session registry under use
\*
\* One AutomationService with its BrowserManager per service id, called by
\* whoever holds the service: the member runs of a batch share the service
\* of their ExecutionService (execution_service.py:24), a preview launches
\* and closes on its own service.  The calls suspend in the browser library
\* and interleave there.

\* The services whose manager is under observation.  Managers of different
\* services share nothing (each AutomationService builds its own,
\* automation_service.py:28), so one is followed.
Managers == {r \in Runs : r = 1}

\* The config values a launch is called with: None (execute_task) or a
\* BrowserConfig (POST /automation/browser/launch).
LaunchConfigs == {"None", "config"}

\* launch_browser up to its first suspension (browser_manager.py:26-47):
\* initialize() finds the engine handle unset and suspends in
\* async_playwright().start() (line 23), or finds it set and goes on to
\* launch the browser process from it (line 47).
LaunchBegin(l, m, cfg) ==
  /\ lpc[l] = "idle"
  /\ \A k \in Launches : k < l => lpc[k] # "idle"
  /\ lmgr' = [lmgr EXCEPT ![l] = m]
  /\ lcfg' = [lcfg EXCEPT ![l] = cfg]
  /\ IF playwright[m] = 0
     THEN /\ lpc' = [lpc EXCEPT ![l] = "starting"]
          /\ UNCHANGED leng
     ELSE /\ lpc' = [lpc EXCEPT ![l] = "launching"]
          /\ leng' = [leng EXCEPT ![l] = playwright[m]]
  /\ UNCHANGED <<playwright, alive, lret, closeVars, closeAllVars,
                 browser_sessions, closeReply>>
  /\ UNCHANGED <<engineVars, active_browsers>>

\* async_playwright().start() returns (browser_manager.py:23): the new
\* engine is stored in self.playwright, whatever the handle holds by now,
\* and the browser process is launched from it (line 47).
EngineStarted(l) ==
  /\ lpc[l] = "starting"
  /\ playwright' = [playwright EXCEPT ![lmgr[l]] = l]
  /\ alive' = alive \cup {l}
  /\ leng' = [leng EXCEPT ![l] = l]
  /\ lpc' = [lpc EXCEPT ![l] = "launching"]
  /\ UNCHANGED <<lmgr, lcfg, lret, closeVars, closeAllVars, browser_sessions,
                 closeReply>>
  /\ UNCHANGED <<engineVars, active_browsers>>

\* The rest of AutomationService.launch_browser.  The browser library
\* raises (it does when the engine has been stopped) and nothing is
\* registered; or BrowserManager.launch_browser registers the session
\* (browser_manager.py:74) and returns, and then the row is built: a None
\* config raises on config.browser_type (automation_service.py:364), else
\* the row is added with task_id=None and committed (363, 370-371).  The
\* column is declared nullable=False (models/database.py:106), so the
\* commit is rejected by a table created from the declared schema and
\* accepted by a table without the constraint; the table's DDL is not part
\* of the sources, both outcomes are kept.
LaunchFinish(l) ==
  /\ lpc[l] = "launching"
  /\ \E libOk, rowOk \in BOOLEAN :
       /\ libOk => leng[l] \in alive
       /\ (rowOk = FALSE) \/ (libOk /\ ~SessionRowRaises(lcfg[l]))
       /\ active_browsers' =
            IF libOk THEN [active_browsers EXCEPT ![lmgr[l]] = @ \cup {l}]
            ELSE active_browsers
       /\ browser_sessions' =
            IF rowOk THEN [browser_sessions EXCEPT ![l] = "active"]
            ELSE browser_sessions
       /\ lret' = [lret EXCEPT ![l] = IF rowOk THEN "ok" ELSE "raised"]
  /\ lpc' = [lpc EXCEPT ![l] = "done"]
  /\ UNCHANGED <<playwright, alive, lmgr, lcfg, leng, closeVars,
                 closeAllVars, closeReply>>
  /\ UNCHANGED engineVars

\* The return value of BrowserManager.close_session once its closes have
\* been awaited (browser_manager.py:110-130): a close that raised, or a del
\* on an entry that is no longer there (KeyError), ends in the handler and
\* returns False.
CloseResultMut(registered, libOk) == IF libOk THEN "true" ELSE "false"
CloseResult(registered, libOk) ==
  IF libOk /\ registered THEN "true" ELSE "false"

\* AutomationService.close_session -> BrowserManager.close_session up to
\* its first suspension (browser_manager.py:102-112): an id that is not in
\* active_browsers returns False at once, else the call suspends in
\* page.close().
CloseBegin(c, m, sid) ==
  /\ cpc[c] = "idle"
  /\ \A k \in Closes : k < c => cpc[k] # "idle"
  /\ cmgr' = [cmgr EXCEPT ![c] = m]
  /\ csid' = [csid EXCEPT ![c] = sid]
  /\ IF sid \in active_browsers[m]
     THEN /\ cpc' = [cpc EXCEPT ![c] = "closing"]
          /\ UNCHANGED cret
     ELSE /\ cpc' = [cpc EXCEPT ![c] = "done"]
          /\ cret' = [cret EXCEPT ![c] = "false"]
  /\ UNCHANGED <<playwright, alive, launchVars, closeAllVars,
                 browser_sessions, closeReply>>
  /\ UNCHANGED <<engineVars, active_browsers>>

\* close_session from the closes to its return (browser_manager.py:112-130,
\* automation_service.py:339-349): on True the entry has been deleted and
\* the session's row, if there is one, is marked inactive; on False the
\* registry and the row are as they were.
CloseEnd(c) ==
  /\ cpc[c] = "closing"
  /\ \E libOk \in BOOLEAN :
       LET r == CloseResult(csid[c] \in active_browsers[cmgr[c]], libOk) IN
         /\ cret' = [cret EXCEPT ![c] = r]
         /\ active_browsers' =
              IF r = "true"
              THEN [active_browsers EXCEPT ![cmgr[c]] = @ \ {csid[c]}]
              ELSE active_browsers
         /\ browser_sessions' =
              IF r = "true" /\ browser_sessions[csid[c]] = "active"
              THEN [browser_sessions EXCEPT ![csid[c]] = "inactive"]
              ELSE browser_sessions
  /\ cpc' = [cpc EXCEPT ![c] = "done"]
  /\ UNCHANGED <<playwright, alive, launchVars, cmgr, csid, closeAllVars,
                 closeReply>>
  /\ UNCHANGED engineVars

\* The registry of the AutomationService a route handler builds for its
\* request (automation.py get_automation_service, automation_service.py:28).
NewRegistry == {}

\* DELETE /automation/sessions/{session_id} (automation.py): close_session
\* on the request's own AutomationService, 404 when it returns False.  The
\* client sends an id that a launch has returned to it.
CloseSessionRequest(sid) ==
  /\ lret[sid] = "ok"
  /\ closeReply[sid] = "none"
  /\ closeReply' = [closeReply EXCEPT ![sid] =
                      IF sid \in NewRegistry THEN "true" ELSE "false"]
  /\ UNCHANGED <<playwright, alive, launchVars, closeVars, closeAllVars,
                 browser_sessions>>
  /\ UNCHANGED <<engineVars, active_browsers>>

\* The smallest element of a non-empty set of ids.
MinOf(S) == CHOOSE x \in S : \A y \in S : x <= y

\* close_all_sessions, entry (browser_manager.py:132-136): the ids present
\* are listed.  With nothing listed and no engine the call returns without
\* suspending.
CloseAllBegin(m) ==
  /\ capc[m] = "idle"
  /\ casnap' = [casnap EXCEPT ![m] = active_browsers[m]]
  /\ caleft' = [caleft EXCEPT ![m] = active_browsers[m]]
  /\ capc' = [capc EXCEPT ![m] =
                IF active_browsers[m] = {} /\ playwright[m] = 0
                THEN "done" ELSE "looping"]
  /\ UNCHANGED <<playwright, alive, launchVars, closeVars, browser_sessions,
                 closeReply>>
  /\ UNCHANGED <<engineVars, active_browsers>>

\* close_all_sessions, one turn of its loop (browser_manager.py:135-136):
\* BrowserManager.close_session on the next listed id, whose return value
\* is dropped; the browser_sessions row is not touched.  (The ids are taken
\* in ascending order; the order has no bearing on what is left.)
CloseAllStep(m) ==
  /\ capc[m] = "looping"
  /\ caleft[m] # {}
  /\ LET sid == MinOf(caleft[m]) IN
       /\ caleft' = [caleft EXCEPT ![m] = @ \ {sid}]
       /\ \E libOk \in BOOLEAN :
            active_browsers' =
              IF CloseResult(sid \in active_browsers[m], libOk) = "true"
              THEN [active_browsers EXCEPT ![m] = @ \ {sid}]
              ELSE active_browsers
  /\ UNCHANGED <<playwright, alive, launchVars, closeVars, capc, casnap,
                 browser_sessions, closeReply>>
  /\ UNCHANGED engineVars

\* close_all_sessions after its loop (browser_manager.py:138-143): an
\* engine that is held is stopped and the handle is set to None.
CloseAllEnd(m) ==
  /\ capc[m] = "looping"
  /\ caleft[m] = {}
  /\ capc' = [capc EXCEPT ![m] = "done"]
  /\ alive' = alive \ {playwright[m]}
  /\ playwright' = [playwright EXCEPT ![m] = 0]
  /\ UNCHANGED <<launchVars, closeVars, caleft, casnap, browser_sessions,
                 closeReply>>
  /\ UNCHANGED <<engineVars, active_browsers>>

NextSessions ==
  \/ \E l \in Launches, m \in Managers, cfg \in LaunchConfigs :
       LaunchBegin(l, m, cfg)
  \/ \E l \in Launches : EngineStarted(l)
  \/ \E l \in Launches : LaunchFinish(l)
  \/ \E c \in Closes, m \in Managers, sid \in Launches :
       CloseBegin(c, m, sid)
  \/ \E c \in Closes : CloseEnd(c)
  \/ \E sid \in Launches : CloseSessionRequest(sid)
  \/ \E m \in Managers : CloseAllBegin(m)
  \/ \E m \in Managers : CloseAllStep(m)
  \/ \E m \in Managers : CloseAllEnd(m)

SpecSessions == Init /\ [][NextSessions]_vars

\* ---------------------------------------------------------- the step executor
\*
\* execute_step as a function of its step, of the registry it looks the
\* session up in, and of whether the browser library carries the action out
\* or raises.

\* schemas/__init__.py ActionType.
ActionType ==
  {"click", "type", "scroll", "wait", "navigate", "screenshot", "hover",
   "drag_drop", "select", "upload"}

\* get_browser (browser_manager.py:94-100): None for an id that is not in
\* active_browsers, else a wrapper of the session.
get_browser(registry, session_id) ==
  IF session_id \in registry THEN "wrapper" ELSE "None"

\* A call on the looked-up browser: AttributeError on None, else the
\* library carries the action out or raises.
OnBrowser(browser, libOk) ==
  IF browser = "None" THEN [result |-> "none_browser", acted |-> FALSE]
  ELSE IF libOk THEN [result |-> "success", acted |-> TRUE]
  ELSE [result |-> "library_error", acted |-> TRUE]

\* raise ValueError(<the operation needs ...>).
MissingParameter == [result |-> "missing_parameter", acted |-> FALSE]

\* _execute_click (automation_service.py:158-172).
ExecuteClick(st) ==
  LET browser == get_browser(st.registry, st.session_id) IN
    IF ~st.target_selector THEN MissingParameter
    ELSE OnBrowser(browser, st.libOk)

\* _execute_type (automation_service.py:174-192).
ExecuteType(st) ==
  LET browser == get_browser(st.registry, st.session_id) IN
    IF ~st.target_selector THEN MissingParameter
    ELSE IF ~st.target_text THEN MissingParameter
    ELSE OnBrowser(browser, st.libOk)

\* _execute_scroll (automation_service.py:194-204).
ExecuteScroll(st) ==
  OnBrowser(get_browser(st.registry, st.session_id), st.libOk)

\* _execute_wait (automation_service.py:206-216): sleeps and reports
\* success; the session id is not used.
ExecuteWait(st) == [result |-> "success", acted |-> FALSE]

\* _execute_navigate (automation_service.py:218-231).
ExecuteNavigate(st) ==
  LET browser == get_browser(st.registry, st.session_id) IN
    IF ~st.target_url THEN MissingParameter
    ELSE OnBrowser(browser, st.libOk)

\* _execute_screenshot (automation_service.py:233-243).
ExecuteScreenshot(st) ==
  OnBrowser(get_browser(st.registry, st.session_id), st.libOk)

\* raise ValueError(<unsupported action type>) (automation_service.py:140).
UnsupportedActionMut == [result |-> "success", acted |-> FALSE]
UnsupportedAction == [result |-> "unsupported_action", acted |-> FALSE]

\* The dispatch of execute_step (automation_service.py:127-140): six kinds
\* have a handler, every other kind raises ValueError (unsupported).
Dispatch(st) ==
  CASE st.action_type = "click" -> ExecuteClick(st)
    [] st.action_type = "type" -> ExecuteType(st)
    [] st.action_type = "scroll" -> ExecuteScroll(st)
    [] st.action_type = "wait" -> ExecuteWait(st)
    [] st.action_type = "navigate" -> ExecuteNavigate(st)
    [] st.action_type = "screenshot" -> ExecuteScreenshot(st)
    [] OTHER -> UnsupportedAction

\* The values of automation_steps.wait_time: the column is a nullable
\* Integer (models/database.py:68); POST /automation/steps stores the int
\* of StepCreate, PUT /automation/steps/{id} stores whatever its body gives
\* for the key (automation.py:66-80, automation_service.py update_step),
\* null included.
WaitTimes == {"null", "zero", "positive"}

\* The test "step.wait_time > 0" after the success entry
\* (automation_service.py:146-148): TypeError on None.
PostStepWait(wait_time) ==
  IF wait_time = "null" THEN "type_error"
  ELSE IF wait_time = "positive" THEN "slept"
  ELSE "skipped"

\* execute_step (automation_service.py:120-156).  The log is the sequence
\* of entries the call adds through _log_execution: "started" first; after
\* a handler that returned, "succeeded", and then the post-step wait, which
\* is inside the same try; any exception ends in the handler, which adds
\* "failed" and raises the exception again.
execute_step(st) ==
  LET d == Dispatch(st) IN
    IF d.result # "success"
    THEN [result |-> d.result, acted |-> d.acted,
          log |-> <<"started", "failed">>]
    ELSE IF PostStepWait(st.wait_time) = "type_error"
    THEN [result |-> "type_error", acted |-> d.acted,
          log |-> <<"started", "succeeded", "failed">>]
    ELSE [result |-> "success", acted |-> d.acted,
          log |-> <<"started", "succeeded">>]

\* What one turn of the step loop of execute_task adds to (success_count,
\* failed_count) for a call of execute_step that ended as out
\* (execution_service.py:81-95): a return counts as a success, an exception
\* as a failure.
StepCounted(out) ==
  IF out.result = "success" THEN <<1, 0>> ELSE <<0, 1>>

\* The calls examined: every kind, each optional field present or not
\* (None and the empty string are both "not"), every stored wait_time,
\* every registry over the session ids, library working or raising.
StepInputs ==
  [action_type : ActionType, target_selector : BOOLEAN,
   target_text : BOOLEAN, target_url : BOOLEAN, wait_time : WaitTimes,
   session_id : Launches, registry : SUBSET Launches, libOk : BOOLEAN]

InitStep ==
  /\ InitEngine
  /\ InitNoFinal
  /\ InitNoWait
  /\ stepIn \in StepInputs
  /\ stepOut = NoStepOut

ExecuteStep ==
  /\ stepOut = NoStepOut
  /\ stepOut' = execute_step(stepIn)
  /\ UNCHANGED <<taskVars, runVars, batchVars, active_executions,
                 active_browsers, finalVars, queryVars, managerVars, stepIn,
                 auxVars>>

NextStep == ExecuteStep

SpecStep == InitStep /\ [][NextStep]_vars

\* ------------------------------------------------------------ the wait step
\*
\* _execute_wait as a function of the step's parameters and timeout.  An
\* optional value is a sequence of length at most one: <<>> is None, <<n>>
\* the number n.

Durations == 0..MaxWait
OptDurations == {<<>>} \cup {<<n>> : n \in Durations}

\* automation_steps.parameters (models/database.py, a nullable JSON column):
\* None or a map.  Of a map, whether it has the key wait_time, the value
\* under that key, and whether it has any other key.
ParameterMaps ==
  {m \in [has_wait_time : BOOLEAN, wait_time : OptDurations,
          has_other : BOOLEAN] : ~m.has_wait_time => m.wait_time = <<>>}
Parameters == {<<>>} \cup {<<m>> : m \in ParameterMaps}

\* bool(step.parameters): None and the empty map are false.
Truthy(parameters) ==
  /\ parameters # <<>>
  /\ parameters[1].has_wait_time \/ parameters[1].has_other

\* automation_service.py:208:
\*   step.parameters.get("wait_time", step.timeout) if step.parameters
\*   else step.timeout
WaitDurationMut(parameters, timeout) ==
  IF /\ Truthy(parameters)
     /\ parameters[1].has_wait_time
     /\ parameters[1].wait_time \notin {<<>>, <<0>>}
  THEN parameters[1].wait_time
  ELSE timeout
WaitDuration(parameters, timeout) ==
  IF Truthy(parameters)
  THEN IF parameters[1].has_wait_time THEN parameters[1].wait_time
       ELSE timeout
  ELSE timeout

\* _execute_wait (automation_service.py:206-216): asyncio.sleep on the
\* duration, which raises TypeError on None, then the result with the
\* duration in it.
execute_wait(st) ==
  LET wait_time == WaitDuration(st.parameters, st.timeout) IN
    IF wait_time = <<>>
    THEN [result |-> "type_error", slept |-> <<>>, duration |-> <<>>]
    ELSE [result |-> "success", slept |-> wait_time, duration |-> wait_time]

WaitInputs == [parameters : Parameters, timeout : OptDurations]

InitWait ==
  /\ InitEngine
  /\ InitNoFinal
  /\ InitNoStep
  /\ waitIn \in WaitInputs
  /\ waitOut = NoWaitOut

ExecuteWaitStep ==
  /\ waitOut = NoWaitOut
  /\ waitOut' = execute_wait(waitIn)
  /\ UNCHANGED <<taskVars, runVars, batchVars, active_executions,
                 active_browsers, finalVars, queryVars, managerVars,
                 stepVars, waitIn, editorVars, extraVars>>

NextWait == ExecuteWaitStep

SpecWait == InitWait /\ [][NextWait]_vars

\* ------------------------------------------------ the editor connections
\*
\* EditorConnectionManager and the websocket endpoint of routes/editor.py.
\* A dict is kept as the sequence of its entries in insertion order; del
\* leaves the slot of the entry empty, a store under a key that is present
\* replaces the value in place, a store under a new key appends.  Every
\* await on a socket is a suspension point, so a socket call is one action
\* up to the await and another from it.

\* session_id in self.active_connections.
HasConnection(conns, sid) == \E i \in DOMAIN conns : conns[i].sid = sid

\* self.active_connections[session_id], for a key that is present.
ConnectionOf(conns, sid) ==
  conns[CHOOSE i \in DOMAIN conns : conns[i].sid = sid].ws

\* len(self.active_connections).
Used(conns) == Cardinality({i \in DOMAIN conns : conns[i].sid # 0})

\* self.active_connections[session_id] = websocket (editor.py:34).
StoreConnectionMut(conns, sid, ws) == Append(conns, [sid |-> sid, ws |-> ws])
StoreConnection(conns, sid, ws) ==
  IF HasConnection(conns, sid)
  THEN [i \in DOMAIN conns |->
          IF conns[i].sid = sid THEN [sid |-> sid, ws |-> ws] ELSE conns[i]]
  ELSE Append(conns, [sid |-> sid, ws |-> ws])

\* The metadata connect stores (editor.py:35-38): connected_at, step_count 0
\* and nothing else.
NewInfo == [present |-> TRUE, recording |-> "unset", status |-> "unset"]

\* disconnect, on active_connections (editor.py:41-42).
DisconnectConnection(conns, sid) ==
  [i \in DOMAIN conns |-> IF conns[i].sid = sid THEN Deleted ELSE conns[i]]

\* disconnect, on session_info (editor.py:43-44).
DisconnectInfoMut(info, sid) == info
DisconnectInfo(info, sid) == [info EXCEPT ![sid] = NoInfo]

\* send_text on a socket raises once the client has closed its end or the
\* socket's endpoint has returned (the server closes the socket then).
Sendable(ws) == wsOpen[ws] /\ wsPc[ws] # "ended"

\* The registry and the outbox after the await of a send on socket ws for
\* session sid has returned (editor.py:48-51, 56-59): delivered, or the
\* exception is caught and the session disconnected.
AfterSend(ws, sid, msg) ==
  IF Sendable(ws)
  THEN /\ outbox' = [outbox EXCEPT ![ws] = Append(@, msg)]
       /\ UNCHANGED registryVars
  ELSE /\ active_connections' = DisconnectConnection(active_connections, sid)
       /\ session_info' = DisconnectInfo(session_info, sid)
       /\ UNCHANGED outbox

\* A client opens a websocket on /editor/ws/{session_id}: the endpoint
\* enters connect and suspends in websocket.accept() (editor.py:214-217,
\* 32-33).
WsConnect(w, sid) ==
  /\ wsPc[w] = "idle"
  /\ \A v \in Sockets : v < w => wsPc[v] # "idle"
  /\ \A i \in EditorSessions : i < sid => \E v \in Sockets : wsSid[v] = i
  /\ wsPc' = [wsPc EXCEPT ![w] = "accepting"]
  /\ wsSid' = [wsSid EXCEPT ![w] = sid]
  /\ wsOpen' = [wsOpen EXCEPT ![w] = TRUE]
  /\ UNCHANGED <<wsMsg, wsTarget, inbound, registryVars, outbox, sendVars,
                 broadcastVars>>
  /\ UNCHANGED <<taskVars, runVars, batchVars, active_executions,
                 active_browsers, finalVars, queryVars, managerVars,
                 stepVars, waitVars, extraVars>>

\* connect from the accept on, and the endpoint up to its first send
\* (editor.py:33-38, 218-223, 46-49): an accept that raises ends the
\* endpoint with nothing stored; else both dicts get their entry and
\* send_message suspends sending "connected".
WsAccept(w) ==
  /\ wsPc[w] = "accepting"
  /\ IF wsOpen[w]
     THEN /\ active_connections' =
               StoreConnection(active_connections, wsSid[w], w)
          /\ session_info' = [session_info EXCEPT ![wsSid[w]] = NewInfo]
          /\ wsPc' = [wsPc EXCEPT ![w] = "sending"]
          /\ wsMsg' = [wsMsg EXCEPT ![w] = "connected"]
          /\ wsTarget' = [wsTarget EXCEPT ![w] = w]
     ELSE /\ wsPc' = [wsPc EXCEPT ![w] = "ended"]
          /\ UNCHANGED <<registryVars, wsMsg, wsTarget>>
  /\ UNCHANGED <<wsSid, wsOpen, inbound, outbox, sendVars, broadcastVars>>
  /\ UNCHANGED <<taskVars, runVars, batchVars, active_executions,
                 active_browsers, finalVars, queryVars, managerVars,
                 stepVars, waitVars, extraVars>>

\* The endpoint from the return of a send to its next suspension
\* (editor.py:49-51, 225-233): after "connected" comes send_message of
\* "session_status", which sends only if the session id is (still) in
\* active_connections; after any other message the endpoint waits in
\* receive_text.
WsSendEnd(w) ==
  /\ wsPc[w] = "sending"
  /\ AfterSend(wsTarget[w], wsSid[w], wsMsg[w])
  /\ IF wsMsg[w] = "connected" /\ HasConnection(active_connections', wsSid[w])
     THEN /\ wsMsg' = [wsMsg EXCEPT ![w] = "session_status"]
          /\ wsTarget' = [wsTarget EXCEPT ![w] =
                            ConnectionOf(active_connections', wsSid[w])]
          /\ UNCHANGED wsPc
     ELSE /\ wsPc' = [wsPc EXCEPT ![w] = "receiving"]
          /\ wsMsg' = [wsMsg EXCEPT ![w] = "none"]
          /\ wsTarget' = [wsTarget EXCEPT ![w] = 0]
  /\ UNCHANGED <<wsSid, wsOpen, inbound, sendVars, broadcastVars>>
  /\ UNCHANGED <<taskVars, runVars, batchVars, active_executions,
                 active_browsers, finalVars, queryVars, managerVars,
                 stepVars, waitVars, extraVars>>

\* The client messages examined: a type and what its data holds.
InboundMessages ==
  {[type |-> "ping", arg |-> "none"],
   [type |-> "update_status", arg |-> "map"],
   [type |-> "update_status", arg |-> "null"],
   [type |-> "request_snapshot", arg |-> "url"],
   [type |-> "request_snapshot", arg |-> "no_url"],
   [type |-> "recording_event", arg |-> "start"],
   [type |-> "recording_event", arg |-> "stop"],
   [type |-> "recording_event", arg |-> "pause"],
   [type |-> "hello", arg |-> "none"]}

\* The message handle_websocket_message answers with ("none": no answer),
\* editor.py:251-252, 259-266.
ReplyToMut(m) ==
  IF m.type = "request_snapshot" /\ m.arg = "url" THEN "snapshot_requested"
  ELSE "none"
ReplyTo(m) ==
  IF m.type = "ping" THEN "pong"
  ELSE IF m.type = "request_snapshot" /\ m.arg = "url"
  THEN "snapshot_requested"
  ELSE "none"

\* session_info[session_id].update(data) with data None: TypeError
\* (editor.py:254-257); it is raised only when the session has metadata.
HandlerRaises(m, info) ==
  m.type = "update_status" /\ m.arg = "null" /\ info.present

\* The metadata of the session after handle_websocket_message
\* (editor.py:254-257, 268-276); metadata that is absent stays absent.
InfoAfter(m, info) ==
  IF ~info.present THEN info
  ELSE IF m.type = "update_status" /\ m.arg = "map"
  THEN [info EXCEPT !.status = "set"]
  ELSE IF m.type = "recording_event" /\ m.arg = "start"
  THEN [info EXCEPT !.recording = "true"]
  ELSE IF m.type = "recording_event" /\ m.arg = "stop"
  THEN [info EXCEPT !.recording = "false"]
  ELSE info

\* receive_text returns a message and handle_websocket_message runs up to
\* its suspension or its return (editor.py:233-237, 246-276, 241-242): an
\* answer is sent through send_message, which does nothing for a session id
\* without connection; an exception of the handler ends the endpoint in
\* disconnect, and the server closes the socket of an endpoint that has
\* returned.
WsReceive(w, m) ==
  /\ wsPc[w] = "receiving"
  /\ wsOpen[w]
  /\ inbound < MaxInbound
  /\ inbound' = inbound + 1
  /\ IF HandlerRaises(m, session_info[wsSid[w]])
     THEN /\ active_connections' =
               DisconnectConnection(active_connections, wsSid[w])
          /\ session_info' = DisconnectInfo(session_info, wsSid[w])
          /\ wsPc' = [wsPc EXCEPT ![w] = "ended"]
          /\ wsOpen' = [wsOpen EXCEPT ![w] = FALSE]
          /\ UNCHANGED <<wsMsg, wsTarget>>
     ELSE /\ session_info' =
               [session_info EXCEPT ![wsSid[w]] = InfoAfter(m, @)]
          /\ UNCHANGED <<active_connections, wsOpen>>
          /\ IF /\ ReplyTo(m) # "none"
                /\ HasConnection(active_connections, wsSid[w])
             THEN /\ wsPc' = [wsPc EXCEPT ![w] = "sending"]
                  /\ wsMsg' = [wsMsg EXCEPT ![w] = ReplyTo(m)]
                  /\ wsTarget' = [wsTarget EXCEPT ![w] =
                       ConnectionOf(active_connections, wsSid[w])]
             ELSE UNCHANGED <<wsPc, wsMsg, wsTarget>>
  /\ UNCHANGED <<wsSid, outbox, sendVars, broadcastVars>>
  /\ UNCHANGED <<taskVars, runVars, batchVars, active_executions,
                 active_browsers, finalVars, queryVars, managerVars,
                 stepVars, waitVars, extraVars>>

\* The client closes its end of the socket.
ClientClose(w) ==
  /\ wsPc[w] \notin {"idle", "ended"}
  /\ wsOpen[w]
  /\ wsOpen' = [wsOpen EXCEPT ![w] = FALSE]
  /\ UNCHANGED <<wsPc, wsSid, wsMsg, wsTarget, inbound, registryVars, outbox,
                 sendVars, broadcastVars>>
  /\ UNCHANGED <<taskVars, runVars, batchVars, active_executions,
                 active_browsers, finalVars, queryVars, managerVars,
                 stepVars, waitVars, extraVars>>

\* receive_text raises WebSocketDisconnect and the endpoint ends in
\* disconnect(session_id) (editor.py:233, 239-240, 40-44).
WsDisconnected(w) ==
  /\ wsPc[w] = "receiving"
  /\ ~wsOpen[w]
  /\ active_connections' = DisconnectConnection(active_connections, wsSid[w])
  /\ session_info' = DisconnectInfo(session_info, wsSid[w])
  /\ wsPc' = [wsPc EXCEPT ![w] = "ended"]
  /\ UNCHANGED <<wsSid, wsOpen, wsMsg, wsTarget, inbound, outbox, sendVars,
                 broadcastVars>>
  /\ UNCHANGED <<taskVars, runVars, batchVars, active_executions,
                 active_browsers, finalVars, queryVars, managerVars,
                 stepVars, waitVars, extraVars>>

\* DELETE /editor/sessions/{session_id} (editor.py:93-110): disconnect when
\* the id has a connection.
CloseEditorSession(sid) ==
  /\ HasConnection(active_connections, sid)
  /\ active_connections' = DisconnectConnection(active_connections, sid)
  /\ session_info' = DisconnectInfo(session_info, sid)
  /\ UNCHANGED <<endpointVars, outbox, sendVars, broadcastVars>>
  /\ UNCHANGED <<taskVars, runVars, batchVars, active_executions,
                 active_browsers, finalVars, queryVars, managerVars,
                 stepVars, waitVars, extraVars>>

\* The number of calls the routes and other callers have made on the
\* manager.
Calls ==
  (IF sendPc = "idle" THEN 0 ELSE 1) + (IF bcPc = "idle" THEN 0 ELSE 1)

\* send_message called by a route (POST /editor/record-steps,
\* editor.py:127-134) up to its suspension (editor.py:46-49): nothing for a
\* session id without connection.
SendBegin(sid) ==
  /\ sendPc = "idle"
  /\ Calls < MaxCalls
  /\ sendSid' = sid
  /\ IF HasConnection(active_connections, sid)
     THEN /\ sendPc' = "sending"
          /\ sendTarget' = ConnectionOf(active_connections, sid)
          /\ UNCHANGED sendOutcome
     ELSE /\ sendPc' = "returned"
          /\ sendOutcome' = "no_connection"
          /\ UNCHANGED sendTarget
  /\ UNCHANGED <<endpointVars, registryVars, outbox, broadcastVars>>
  /\ UNCHANGED <<taskVars, runVars, batchVars, active_executions,
                 active_browsers, finalVars, queryVars, managerVars,
                 stepVars, waitVars, extraVars>>

\* send_message from the return of its send (editor.py:49-51).
SendEnd ==
  /\ sendPc = "sending"
  /\ AfterSend(sendTarget, sendSid, "steps_recorded")
  /\ sendPc' = "returned"
  /\ sendOutcome' = IF Sendable(sendTarget) THEN "delivered"
                    ELSE "disconnected"
  /\ sendTarget' = 0
  /\ UNCHANGED <<endpointVars, sendSid, broadcastVars>>
  /\ UNCHANGED <<taskVars, runVars, batchVars, active_executions,
                 active_browsers, finalVars, queryVars, managerVars,
                 stepVars, waitVars, extraVars>>

\* The index of the next entry at or after position pos (0: none), as the
\* dict iterator scans for it.
NextEntry(conns, pos) ==
  IF \E i \in DOMAIN conns : i >= pos /\ conns[i].sid # 0
  THEN CHOOSE i \in DOMAIN conns :
         /\ i >= pos /\ conns[i].sid # 0
         /\ \A j \in DOMAIN conns : (j >= pos /\ conns[j].sid # 0) => i <= j
  ELSE 0

\* The for statement of broadcast from a call of next() on its iterator to
\* the suspension in a send or to the end of the call (editor.py:54-57).
\* The iterator raises RuntimeError when the size of the dict is not what it
\* was when the iterator was made, or when it finds an entry after it has
\* yielded as many as the dict had; nothing in broadcast catches that.  The
\* entry of the excluded session is passed over without suspending.
RECURSIVE Iterate(_, _, _, _, _)
Iterate(conns, pos, used, left, exclude) ==
  LET i == NextEntry(conns, pos) IN
    IF Used(conns) # used \/ (i # 0 /\ left = 0)
    THEN [pc |-> "raised", pos |-> 1, used |-> 0, left |-> 0,
          target |-> Deleted]
    ELSE IF i = 0
    THEN [pc |-> "returned", pos |-> 1, used |-> 0, left |-> 0,
          target |-> Deleted]
    ELSE IF conns[i].sid = exclude
    THEN Iterate(conns, i + 1, used, left - 1, exclude)
    ELSE [pc |-> "sending", pos |-> i + 1, used |-> used, left |-> left - 1,
          target |-> conns[i]]

\* broadcast is called (editor.py:53-57): the iterator over
\* active_connections.items() is made and the loop runs to its first send.
BroadcastBegin(exclude) ==
  /\ bcPc = "idle"
  /\ Calls < MaxCalls
  /\ bcExclude' = exclude
  /\ LET it == Iterate(active_connections, 1, Used(active_connections),
                       Used(active_connections), exclude)
     IN /\ bcPc' = it.pc
        /\ bcPos' = it.pos
        /\ bcUsed' = it.used
        /\ bcLeft' = it.left
        /\ bcTarget' = it.target
  /\ UNCHANGED <<endpointVars, registryVars, outbox, sendVars>>
  /\ UNCHANGED <<taskVars, runVars, batchVars, active_executions,
                 active_browsers, finalVars, queryVars, managerVars,
                 stepVars, waitVars, extraVars>>

\* broadcast from the return of a send to its next send or to the end of
\* the call (editor.py:57-59, 54-56): a send that raised disconnects the
\* session, inside the loop over the dict.
BroadcastSendEnd ==
  /\ bcPc = "sending"
  /\ AfterSend(bcTarget.ws, bcTarget.sid, "broadcast")
  /\ LET it == Iterate(active_connections', bcPos, bcUsed, bcLeft, bcExclude)
     IN /\ bcPc' = it.pc
        /\ bcPos' = it.pos
        /\ bcUsed' = it.used
        /\ bcLeft' = it.left
        /\ bcTarget' = it.target
  /\ UNCHANGED <<bcExclude, endpointVars, sendVars>>
  /\ UNCHANGED <<taskVars, runVars, batchVars, active_executions,
                 active_browsers, finalVars, queryVars, managerVars,
                 stepVars, waitVars, extraVars>>

NextEditor ==
  \/ \E w \in Sockets, sid \in EditorSessions : WsConnect(w, sid)
  \/ \E w \in Sockets : WsAccept(w)
  \/ \E w \in Sockets : WsSendEnd(w)
  \/ \E w \in Sockets, m \in InboundMessages : WsReceive(w, m)
  \/ \E w \in Sockets : ClientClose(w)
  \/ \E w \in Sockets : WsDisconnected(w)
  \/ \E sid \in EditorSessions : CloseEditorSession(sid)
  \/ \E sid \in EditorSessions : SendBegin(sid)
  \/ SendEnd
  \/ \E x \in EditorSessions \cup {0} : BroadcastBegin(x)
  \/ BroadcastSendEnd

SpecEditor == Init /\ [][NextEditor]_vars

\* ------------------------------------------------- stop_task on a task row

\* TaskService.update_task_status (task_service.py:144-171) on a row, at
\* clock reading t: a missing row is left alone; else the status is
\* written, updated_at is set, started_at is set on a change to running,
\* completed_at on completed, failed and cancelled, and error_message is
\* written when the argument is truthy.
update_task_status(tk, st, msg, t) ==
  IF ~tk.present THEN tk
  ELSE [tk EXCEPT
          !.status = st,
          !.updated_at = <<t>>,
          !.started_at =
            IF st = "running" /\ tk.status # "running" THEN <<t>> ELSE @,
          !.completed_at =
            IF st \in {"completed", "failed", "cancelled"} THEN <<t>> ELSE @,
          !.error_message = IF msg # NoMsg THEN msg ELSE @]

\* TaskService.stop_task (task_service.py:289-307) on a row: the row after
\* the call and the value returned.
stop_task(tk, t) ==
  IF tk.present /\ Stoppable(tk.status)
  THEN [task |-> update_task_status(tk, "cancelled", MsgUserStop, t),
        ret |-> "true"]
  ELSE [task |-> tk, ret |-> "false"]

\* TaskService.create_task (task_service.py:22-43): the row is inserted
\* with the column defaults, status pending and no timestamps but
\* created_at and updated_at.
TaskCreated ==
  /\ ~task.present
  /\ now < MaxClock
  /\ task' = [present |-> TRUE, status |-> "pending", started_at |-> <<>>,
              completed_at |-> <<>>, updated_at |-> <<now>>,
              error_message |-> NoMsg]
  /\ now' = now + 1
  /\ stopReply' = NoReply
  /\ UNCHANGED <<taskVars, runVars, batchVars, active_executions,
                 active_browsers, finalVars, queryVars, managerVars,
                 stepVars, waitVars, editorVars, recorderVars,
                 previewVars>>

\* The status writes of the engine and of initialize_task
\* (execution_service.py:42, 50-52, 111-116, 130; task_service.py:142):
\* running without a message, completed or failed with or without one.
StatusWritten(st, msg) ==
  /\ task.present
  /\ now < MaxClock
  /\ st = "running" => msg = NoMsg
  /\ task' = update_task_status(task, st, msg, now)
  /\ now' = now + 1
  /\ stopReply' = NoReply
  /\ UNCHANGED <<taskVars, runVars, batchVars, active_executions,
                 active_browsers, finalVars, queryVars, managerVars,
                 stepVars, waitVars, editorVars, recorderVars,
                 previewVars>>

\* POST /tasks/{task_id}/stop (tasks.py:211-223) -> stop_task on the row,
\* or on no row; the route answers 404 when stop_task returned False.  The
\* clock is read only when the row is written.
StopTaskCall ==
  /\ now < MaxClock
  /\ LET out == stop_task(task, now) IN
       /\ task' = out.task
       /\ stopReply' = out.ret
       /\ now' = IF out.ret = "true" THEN now + 1 ELSE now
  /\ UNCHANGED <<taskVars, runVars, batchVars, active_executions,
                 active_browsers, finalVars, queryVars, managerVars,
                 stepVars, waitVars, editorVars, recorderVars,
                 previewVars>>

NextStopTask ==
  \/ TaskCreated
  \/ \E st \in {"running", "completed", "failed"},
        msg \in {NoMsg, MsgException, MsgPartial} : StatusWritten(st, msg)
  \/ StopTaskCall

SpecStopTask == Init /\ [][NextStopTask]_vars

\* ------------------------------------------------------ the browser recorder

\* The action types of a recorded step.
RecordedKinds == {"click", "type"}

\* The recording start_recording stores (browser_recorder.py:35-41).
NewRecording ==
  [present |-> TRUE, is_recording |-> TRUE, steps |-> <<>>,
   step_counter |-> 0]

\* BrowserRecorder.record_step (browser_recorder.py:88-114) on the
\* recordings: a missing or stopped recording returns False; else the step
\* is appended with step_number = step_counter and the counter is raised.
record_stepMut(recs, sid, kind) ==
  IF ~recs[sid].present
  THEN [recs |-> recs, ret |-> "false"]
  ELSE [recs |-> [recs EXCEPT
                    ![sid].steps =
                      Append(@, [action_type |-> kind,
                                 step_number |-> recs[sid].step_counter]),
                    ![sid].step_counter = @ + 1],
        ret |-> "true"]
record_step(recs, sid, kind) ==
  IF ~recs[sid].present \/ ~recs[sid].is_recording
  THEN [recs |-> recs, ret |-> "false"]
  ELSE [recs |-> [recs EXCEPT
                    ![sid].steps =
                      Append(@, [action_type |-> kind,
                                 step_number |-> recs[sid].step_counter]),
                    ![sid].step_counter = @ + 1],
        ret |-> "true"]

\* EditorService.create_session (editor_service.py:30-60): a user_sessions
\* row is inserted under a fresh session id.
UserSessionCreated(sid) ==
  /\ sid \notin user_sessions
  /\ \A k \in RecSessions : k < sid => k \in user_sessions
  /\ user_sessions' = user_sessions \cup {sid}
  /\ recReply' = NoRecReply
  /\ UNCHANGED active_recordings
  /\ UNCHANGED <<taskVars, runVars, batchVars, active_executions,
                 active_browsers, finalVars, queryVars, managerVars,
                 stepVars, waitVars, editorVars, stopVars, previewVars>>

\* BrowserRecorder.start_recording (browser_recorder.py:23-58): a session
\* id without a row raises before anything is stored; else a fresh
\* recording replaces whatever is stored under the id.
StartRecording(sid) ==
  /\ IF sid \in user_sessions
     THEN /\ active_recordings' =
               [active_recordings EXCEPT ![sid] = NewRecording]
          /\ recReply' = [op |-> "start", sid |-> sid, ret |-> "started"]
     ELSE /\ UNCHANGED active_recordings
          /\ recReply' = [op |-> "start", sid |-> sid, ret |-> "raised"]
  /\ UNCHANGED user_sessions
  /\ UNCHANGED <<taskVars, runVars, batchVars, active_executions,
                 active_browsers, finalVars, queryVars, managerVars,
                 stepVars, waitVars, editorVars, stopVars, previewVars>>

\* BrowserRecorder.stop_recording (browser_recorder.py:60-86): an id
\* without a recording raises; else is_recording is set to False, the steps
\* and the counter are kept.
StopRecording(sid) ==
  /\ IF active_recordings[sid].present
     THEN /\ active_recordings' =
               [active_recordings EXCEPT ![sid].is_recording = FALSE]
          /\ recReply' = [op |-> "stop", sid |-> sid, ret |-> "stopped"]
     ELSE /\ UNCHANGED active_recordings
          /\ recReply' = [op |-> "stop", sid |-> sid, ret |-> "raised"]
  /\ UNCHANGED user_sessions
  /\ UNCHANGED <<taskVars, runVars, batchVars, active_executions,
                 active_browsers, finalVars, queryVars, managerVars,
                 stepVars, waitVars, editorVars, stopVars, previewVars>>

\* One call of record_step with a step of the given action type.
RecordStep(sid, kind) ==
  /\ Len(active_recordings[sid].steps) < MaxRecorded
  /\ LET out == record_step(active_recordings, sid, kind) IN
       /\ active_recordings' = out.recs
       /\ recReply' = [op |-> "record", sid |-> sid, ret |-> out.ret]
  /\ UNCHANGED user_sessions
  /\ UNCHANGED <<taskVars, runVars, batchVars, active_executions,
                 active_browsers, finalVars, queryVars, managerVars,
                 stepVars, waitVars, editorVars, stopVars, previewVars>>

NextRecorder ==
  \/ \E sid \in RecSessions : UserSessionCreated(sid)
  \/ \E sid \in RecSessions : StartRecording(sid)
  \/ \E sid \in RecSessions : StopRecording(sid)
  \/ \E sid \in RecSessions, kind \in RecordedKinds : RecordStep(sid, kind)

SpecRecorder == Init /\ [][NextRecorder]_vars

\* ------------------------------------------------------------- the preview

\* The session id the preview's launch returns (a fresh uuid).
PreviewSession == 1

\* The steps a previewed task can have: a click with or without its
\* selector or a wait, each with every stored wait_time.
PreviewSteps ==
  [action_type : {"click", "wait"}, target_selector : BOOLEAN,
   wait_time : WaitTimes]

RECURSIVE StepLists(_)
StepLists(n) ==
  IF n = 0 THEN {<<>>}
  ELSE StepLists(n - 1)
         \cup {Append(l, x) : l \in {m \in StepLists(n - 1) : Len(m) = n - 1},
                               x \in PreviewSteps}

\* The call execute_step(step, session_id) of the preview's loop
\* (automation_service.py:279): the step against the preview's session on
\* the preview's manager.
PreviewCall(step, registry, libOk) ==
  [action_type |-> step.action_type, target_selector |-> step.target_selector,
   target_text |-> FALSE, target_url |-> FALSE, wait_time |-> step.wait_time,
   session_id |-> PreviewSession, registry |-> registry, libOk |-> libOk]

\* The loop goes on to the next step after a call of execute_step that
\* returned; an exception is recorded and ends the loop
\* (automation_service.py:278-296).
PreviewContinuesMut(out) == TRUE
PreviewContinues(out) == out.result = "success"

\* Where the call is once its loop is at position pos: at the next step, or
\* past the last one in the finally clause (automation_service.py:300-302).
AfterLoopAt(pos, steps) == IF pos <= Len(steps) THEN "stepping" ELSE "closing"

\* preview_automation up to its first suspension
\* (automation_service.py:245-259): a missing task raises ValueError before
\* anything is launched; else the steps are read and the call suspends in
\* BrowserManager.launch_browser(BrowserConfig()).
PreviewBegin(t) ==
  /\ pvPc = "idle"
  /\ pvTask' = t
  /\ IF status[t] = "none"
     THEN /\ pvPc' = "raised"
          /\ pvTrace' = [pvTrace EXCEPT !.raising = TRUE]
          /\ UNCHANGED <<pvUrl, pvSteps>>
     ELSE /\ pvPc' = "launching"
          /\ pvUrl' \in BOOLEAN
          /\ pvSteps' \in StepLists(MaxPreviewSteps)
          /\ UNCHANGED pvTrace
  /\ UNCHANGED <<pvPos, pvRegistry, pvResults, pvExecuted>>
  /\ UNCHANGED <<taskVars, runVars, batchVars, active_executions,
                 active_browsers, finalVars, queryVars, managerVars,
                 stepVars, waitVars, editorVars, stopVars, recorderVars>>

\* The launch returns or raises (automation_service.py:259-260,
\* browser_manager.py:26-92): on a return the session is registered and
\* the call goes on to task.url (lines 272-275), to its loop or, with no
\* step, to the finally clause; an exception leaves the call with nothing
\* registered.
PreviewLaunched ==
  /\ pvPc = "launching"
  /\ \E libOk \in BOOLEAN :
       IF libOk
       THEN /\ pvRegistry' = pvRegistry \cup {PreviewSession}
            /\ pvTrace' = [pvTrace EXCEPT !.launched = TRUE]
            /\ pvPc' = IF pvUrl THEN "navigating"
                       ELSE AfterLoopAt(pvPos, pvSteps)
       ELSE /\ pvPc' = "raised"
            /\ pvTrace' = [pvTrace EXCEPT !.raising = TRUE]
            /\ UNCHANGED pvRegistry
  /\ UNCHANGED <<pvTask, pvUrl, pvSteps, pvPos, pvResults, pvExecuted>>
  /\ UNCHANGED <<taskVars, runVars, batchVars, active_executions,
                 active_browsers, finalVars, queryVars, managerVars,
                 stepVars, waitVars, editorVars, stopVars, recorderVars>>

\* browser.goto(task.url) returns or raises (automation_service.py:272-275):
\* an exception is outside the per-step handler and leaves through the
\* finally clause.
PreviewNavigated ==
  /\ pvPc = "navigating"
  /\ \E libOk \in BOOLEAN :
       IF libOk
       THEN /\ pvPc' = AfterLoopAt(pvPos, pvSteps)
            /\ UNCHANGED pvTrace
       ELSE /\ pvPc' = "closing"
            /\ pvTrace' = [pvTrace EXCEPT !.raising = TRUE]
  /\ UNCHANGED <<pvTask, pvUrl, pvSteps, pvPos, pvRegistry, pvResults,
                 pvExecuted>>
  /\ UNCHANGED <<taskVars, runVars, batchVars, active_executions,
                 active_browsers, finalVars, queryVars, managerVars,
                 stepVars, waitVars, editorVars, stopVars, recorderVars>>

\* One turn of the loop (automation_service.py:277-296): execute_step on
\* the step; a return appends a success entry, raises executed_steps and
\* sleeps before the next turn; an exception appends a failure entry and
\* breaks.
PreviewStep ==
  /\ pvPc = "stepping"
  /\ \E libOk \in BOOLEAN :
       LET out == execute_step(PreviewCall(pvSteps[pvPos], pvRegistry, libOk))
       IN
         /\ pvTrace' = [pvTrace EXCEPT !.dispatched = @ + 1]
         /\ pvResults' =
              Append(pvResults,
                     [step |-> pvPos, success |-> out.result = "success"])
         /\ pvExecuted' =
              IF out.result = "success" THEN pvExecuted + 1 ELSE pvExecuted
         /\ pvPos' = pvPos + 1
         /\ pvPc' = IF PreviewContinues(out)
                    THEN AfterLoopAt(pvPos + 1, pvSteps)
                    ELSE "closing"
  /\ UNCHANGED <<pvTask, pvUrl, pvSteps, pvRegistry>>
  /\ UNCHANGED <<taskVars, runVars, batchVars, active_executions,
                 active_browsers, finalVars, queryVars, managerVars,
                 stepVars, waitVars, editorVars, stopVars, recorderVars>>

\* The finally clause (automation_service.py:300-302):
\* BrowserManager.close_session on the preview's session, whose library
\* closes return or raise and whose return value is dropped; then the
\* result is returned or the exception goes on to the caller.
PreviewClosed ==
  /\ pvPc = "closing"
  /\ \E libOk \in BOOLEAN :
       /\ pvRegistry' =
            IF CloseResult(PreviewSession \in pvRegistry, libOk) = "true"
            THEN pvRegistry \ {PreviewSession}
            ELSE pvRegistry
       /\ pvTrace' = [pvTrace EXCEPT !.closeCalled = TRUE,
                                     !.closeLibOk = libOk]
  /\ pvPc' = IF pvTrace.raising THEN "raised" ELSE "returned"
  /\ UNCHANGED <<pvTask, pvUrl, pvSteps, pvPos, pvResults, pvExecuted>>
  /\ UNCHANGED <<taskVars, runVars, batchVars, active_executions,
                 active_browsers, finalVars, queryVars, managerVars,
                 stepVars, waitVars, editorVars, stopVars, recorderVars>>

\* A task is created and previewed (POST /automation/preview schedules the
\* call for any task_id the client sends).
NextPreview ==
  \/ \E t \in TaskIds, url \in BOOLEAN : CreateTask(t, url)
  \/ \E t \in TaskIds : PreviewBegin(t)
  \/ PreviewLaunched
  \/ PreviewNavigated
  \/ PreviewStep
  \/ PreviewClosed

SpecPreview == Init /\ [][NextPreview]_vars

\* ------------------------------------------------------------------ claims

\* A run is in flight from the moment execute_task has started until it
\* returns.
InFlight(r) == pc[r] = "launching"

\* No fault of the browser library occurred in the run.
LibraryFaultFree(r) == result[r] # "library_error"

\* A finished run of a task with steps, in which the browser library raised
\* nothing and which nobody cancelled.
UndisturbedRun(r) ==
  /\ pc[r] = "done"
  /\ snapshot[r] >= 1
  /\ status[runTask[r]] # "none"
  /\ LibraryFaultFree(r)
  /\ ~cancelledInFlight[r]

\* C1: at no time are two runs of the same task in flight.
C1_AtMostOneRunInFlight ==
  \A r1, r2 \in Runs :
    (r1 # r2 /\ InFlight(r1) /\ InFlight(r2)) => runTask[r1] # runTask[r2]

\* C2: when execute_task has returned, the session registry of its service
\* holds no session opened by that run.
C2_SessionsReleased ==
  \A r \in Runs : pc[r] = "done" => r \notin active_browsers[runSvc[r]]

\* C3: a run of an existing task with zero steps ends at once with the task
\* failed for "no steps configured", and it leaves every session registry as
\* it was.
C3_NoStepsRunFails ==
  [][\A r \in Runs :
       (/\ pc[r] = "scheduled"
        /\ pc'[r] # "scheduled"
        /\ status[runTask[r]] # "none"
        /\ nsteps[runTask[r]] = 0)
       => (/\ pc'[r] = "done"
           /\ status'[runTask[r]] = "failed"
           /\ error_message'[runTask[r]] = MsgNoSteps
           /\ active_browsers' = active_browsers)]_vars

C3_Witness ==
  \E r \in Runs :
    /\ pc[r] = "done"
    /\ result[r] = "no_steps"
    /\ snapshot[r] = 0
    /\ status[runTask[r]] = "failed"
    /\ error_message[runTask[r]] = MsgNoSteps
    /\ active_browsers[runSvc[r]] = {}

C5_AllSucceedCounts ==
  \A r \in Runs :
    (UndisturbedRun(r) /\ \A q \in Runs : q # r => runTask[q] # runTask[r])
    => (/\ status[runTask[r]] = "completed"
        /\ failure_count[runTask[r]] = 0
        /\ success_count[runTask[r]] = snapshot[r])

\* C6: execution_count has grown by one for every finished run that got to
\* execute its steps.
C6_CountersUpdatedPerRun ==
  \A t \in TaskIds :
    execution_count[t] >=
      Cardinality({r \in Runs : runTask[r] = t /\ UndisturbedRun(r)})

\* C8: a finished run that was not cancelled has dispatched the task's steps
\* one after the other in ascending order, none skipped and none repeated.
C8_StepsInOrder ==
  \A r \in Runs :
    UndisturbedRun(r) => dispatched[r] = [i \in 1..snapshot[r] |-> i]

\* C9: a run that is not cancelled and meets no infrastructure fault
\* dispatches every one of the task's steps.
C9_EveryStepDispatched ==
  \A r \in Runs :
    UndisturbedRun(r) => Len(dispatched[r]) = snapshot[r]

\* C10: a run that ends in the launch (the launch raised) leaves the task
\* failed with the exception text as its error message, and has dispatched
\* no step.
C10_FaultFailsTask ==
  [][\A r \in Runs :
       (/\ pc[r] = "launching"
        /\ pc'[r] = "done"
        /\ status[runTask[r]] # "none")
       => (/\ status'[runTask[r]] = "failed"
           /\ error_message'[runTask[r]] = MsgException
           /\ dispatched'[r] = <<>>)]_vars

C10_Witness ==
  \E r \in Runs :
    /\ pc[r] = "done"
    /\ result[r] = "library_error"
    /\ status[runTask[r]] = "failed"
    /\ error_message[runTask[r]] = MsgException
    /\ dispatched[r] = <<>>

\* The task statuses after which a run does nothing more.
TerminalStatus == {"completed", "failed", "cancelled"}

\* The member runs of the batch of service s.
Members(s) == {r \in Runs : runSvc[r] = s}

\* The status a returned run wrote for its task when it ended ("none": the
\* run has not returned, or the task has no row): every return path of
\* execute_task that is taken writes "failed".
RunEndStatus(r) ==
  IF /\ result[r] \in {"no_steps", "library_error", "config_error"}
     /\ status[runTask[r]] # "none"
  THEN "failed" ELSE "none"

\* C11: the return of one member run of a batch, with or without a fault,
\* leaves every other run where it was and the status of every other task
\* as it was, and writes a terminal status for its own task; and the batch
\* finishes only when every one of its member runs has returned.
C11_MembersIndependent ==
  [][/\ \A r \in Runs :
          (pc[r] \in {"scheduled", "launching"} /\ pc'[r] = "done")
          => /\ status[runTask[r]] # "none"
                  => status'[runTask[r]] \in TerminalStatus
             /\ \A q \in Runs \ {r} :
                  /\ pc'[q] = pc[q]
                  /\ result'[q] = result[q]
                  /\ (runTask[q] \in TaskIds /\ runTask[q] # runTask[r])
                       => status'[runTask[q]] = status[runTask[q]]
     /\ \A s \in Runs :
          (batchPc[s] = "gathering" /\ batchPc'[s] = "done")
          => \A r \in Members(s) : pc[r] = "done" /\ result[r] # "none"]_vars

C11_Witness ==
  \E s \in Runs :
    /\ batchPc[s] = "done"
    /\ \E r, q \in Members(s) :
         /\ runTask[r] # runTask[q]
         /\ result[r] = "library_error"
         /\ result[q] = "config_error"
         /\ status[runTask[r]] = "failed"
         /\ status[runTask[q]] = "failed"

\* C12: in the record of a batch, completed_tasks is the number of member
\* runs that ended completed and failed_tasks the number that ended failed,
\* and once the batch has finished the two add up to total_tasks.
C12_BatchTallies ==
  \A x \in active_executions :
    x.eid = ExecId("batch", 0) =>
      /\ x.completed_tasks =
           Cardinality({r \in Members(x.svc) : RunEndStatus(r) = "completed"})
      /\ x.failed_tasks =
           Cardinality({r \in Members(x.svc) : RunEndStatus(r) = "failed"})
      /\ x.status = "completed"
           => x.completed_tasks + x.failed_tasks = x.total_tasks

\* C13: once a batch has completed, get_execution_status finds no record
\* under the batch's execution id.
C13_BatchRecordDiscarded ==
  \A s \in Runs :
    batchPc[s] = "done"
    => get_execution_status(active_executions, s, ExecId("batch", 0)) = {}

\* C14: after a single-task run has returned, its record is there with a
\* terminal status until get_execution_status has been called for it, and
\* is gone after that call.
C14_RecordUntilQueried ==
  \A r \in Runs :
    (pc[r] = "done" /\ runExec[r][1] = "exec") =>
      LET reply == get_execution_status(active_executions, runSvc[r],
                                        runExec[r])
      IN IF queried[r]
         THEN reply = {}
         ELSE /\ reply # {}
              /\ \A x \in reply :
                   x.status \in TerminalStatus \cup {"stopped"}

\* C15: a close request for a session that a launch request returned and
\* that is still open is answered with true, and afterwards the session is
\* in no registry and its row is not listed as active.
C15_CloseLaunchedSession ==
  [][\A sid \in Launches :
       (/\ closeReply[sid] = "none"
        /\ closeReply'[sid] # "none"
        /\ lret[sid] = "ok"
        /\ \E m \in Runs : sid \in active_browsers[m])
       => (/\ closeReply'[sid] = "true"
           /\ \A m \in Runs : sid \notin active_browsers'[m]
           /\ browser_sessions'[sid] # "active")]_vars

\* C16: close_session on an id that is not registered returns false at once
\* and changes neither the registry, nor the rows, nor the engine handle;
\* and of all the calls of close_session for one id on one manager,
\* whether one after the other or overlapping, at most one returns true.
C16_CloseIdempotent ==
  /\ [](\A m \in Runs, sid \in Launches :
          Cardinality({c \in Closes : /\ cmgr[c] = m
                                      /\ csid[c] = sid
                                      /\ cret[c] = "true"}) <= 1)
  /\ [][\A c \in Closes :
          (/\ cpc[c] = "idle"
           /\ cpc'[c] # "idle"
           /\ csid'[c] \notin active_browsers[cmgr'[c]])
          => (/\ cpc'[c] = "done"
              /\ cret'[c] = "false"
              /\ active_browsers' = active_browsers
              /\ browser_sessions' = browser_sessions
              /\ playwright' = playwright)]_vars

\* Two overlapping calls for one registered id: the first has deleted the
\* entry and returned true, the second is still suspended in its closes.
C16_Witness ==
  \E c1, c2 \in Closes :
    /\ c1 # c2
    /\ cmgr[c1] = cmgr[c2]
    /\ csid[c1] = csid[c2]
    /\ cret[c1] = "true"
    /\ cpc[c2] = "closing"
    /\ csid[c1] \notin active_browsers[cmgr[c1]]

\* C18: a manager has at most one engine running at a time, and while it
\* holds an engine every session in its registry was launched from that
\* engine.
C18_OneEngine ==
  \A m \in Runs :
    /\ Cardinality({e \in alive : lmgr[e] = m}) <= 1
    /\ playwright[m] # 0
         => \A sid \in active_browsers[m] : leng[sid] = playwright[m]

\* C19: when close_all_sessions returns, none of the sessions that were
\* registered when it was called is in the registry and the engine handle
\* is unset, whether or not a close failed on the way.
C19_CloseAllEmpties ==
  [][\A m \in Runs :
       (capc[m] # "done" /\ capc'[m] = "done")
       => (/\ casnap'[m] \cap active_browsers'[m] = {}
           /\ playwright'[m] = 0)]_vars

\* The step of the call has every field its kind requires.
FieldsPresent(st) ==
  /\ st.action_type \in {"click", "hover", "select"} => st.target_selector
  /\ st.action_type = "type" => (st.target_selector /\ st.target_text)
  /\ st.action_type = "navigate" => st.target_url

\* C17: a step of any of the six executable kinds, run against a session id
\* that is not in the registry, fails on the missing session without any
\* browser action, and never reports success.
C17_AbsentSessionFails ==
  (/\ stepOut # NoStepOut
   /\ stepIn.session_id \notin stepIn.registry
   /\ stepIn.action_type \in
        {"click", "type", "scroll", "wait", "navigate", "screenshot"}
   /\ stepIn.wait_time # "null"
   /\ FieldsPresent(stepIn))
  => (stepOut.result = "none_browser" /\ ~stepOut.acted)

\* C20: a click, hover, select, type or navigate step that lacks a field it
\* requires fails with MissingParameter before any browser action; with the
\* fields present, the session registered and the library working, each of
\* these kinds succeeds.
C20_RequiredFields ==
  (/\ stepOut # NoStepOut
   /\ stepIn.action_type \in {"click", "hover", "select", "type", "navigate"})
  => /\ ~FieldsPresent(stepIn)
        => (stepOut.result = "missing_parameter" /\ ~stepOut.acted)
     /\ (/\ FieldsPresent(stepIn)
         /\ stepIn.session_id \in stepIn.registry
         /\ stepIn.wait_time # "null"
         /\ stepIn.libOk)
        => stepOut.result = "success"

\* The six action kinds that have a handler.
ExecutableKinds ==
  {"click", "type", "scroll", "wait", "navigate", "screenshot"}

\* C21: a step whose action kind has no handler fails with the unsupported
\* action error without any browser action; its log holds the started entry
\* and a failure entry and no success entry, and the step loop counts it as
\* failed.
C21_UnsupportedFails ==
  (stepOut # NoStepOut /\ stepIn.action_type \notin ExecutableKinds)
  => /\ stepOut.result = "unsupported_action"
     /\ ~stepOut.acted
     /\ stepOut.log = <<"started", "failed">>
     /\ StepCounted(stepOut) = <<0, 1>>

C21_Witness ==
  /\ stepIn.action_type = "hover"
  /\ stepOut.result = "unsupported_action"
  /\ stepOut.log = <<"started", "failed">>

\* C23: a call of execute_step adds exactly one started entry, first, and
\* after it exactly one terminal entry, a success or a failure, never both.
C23_OneStartedOneTerminal ==
  stepOut # NoStepOut
  => /\ Len(stepOut.log) = 2
     /\ stepOut.log[1] = "started"
     /\ stepOut.log[2] \in {"succeeded", "failed"}

\* The duration the wait step of the call is specified to have: the value
\* under the key wait_time when the map has the key, else the timeout.
SpecifiedDuration(st) ==
  IF st.parameters # <<>> /\ st.parameters[1].has_wait_time
  THEN st.parameters[1].wait_time
  ELSE st.timeout

\* C22: a wait step sleeps for parameters.wait_time when the parameter map
\* has that key, the value 0 included, and for the step's timeout otherwise;
\* with a number for that duration the call succeeds, and its result reports
\* the same duration.
C22_WaitDuration ==
  waitOut # NoWaitOut
  => /\ waitOut.slept = SpecifiedDuration(waitIn)
     /\ SpecifiedDuration(waitIn) # <<>>
        => /\ waitOut.result = "success"
           /\ waitOut.duration = SpecifiedDuration(waitIn)

C22_Witness ==
  /\ waitIn.parameters # <<>>
  /\ waitIn.parameters[1].has_wait_time
  /\ waitIn.parameters[1].wait_time = <<0>>
  /\ waitIn.timeout = <<MaxWait>>
  /\ waitOut.result = "success"
  /\ waitOut.duration = <<0>>

\* The session ids that have a connection, and those that have metadata.
Connected == {i \in EditorSessions : HasConnection(active_connections, i)}
WithInfo == {i \in EditorSessions : session_info[i].present}

\* C24: at any time each session id has at most one connection in
\* active_connections, and the session ids with a connection are exactly
\* those with metadata.
C24_OneConnectionPerSession ==
  /\ \A i, j \in DOMAIN active_connections :
       (/\ active_connections[i].sid # 0
        /\ active_connections[i].sid = active_connections[j].sid) => i = j
  /\ Connected = WithInfo

\* Two sockets were accepted under one session id, and the id maps to the
\* later one.
C24_Witness ==
  \E v, w \in Sockets :
    /\ v # w /\ wsSid[v] = wsSid[w]
    /\ wsPc[v] = "receiving" /\ wsPc[w] = "receiving"
    /\ HasConnection(active_connections, wsSid[w])
    /\ ConnectionOf(active_connections, wsSid[w]) = w
    /\ Used(active_connections) = 1

\* Everything the manager holds for the session ids other than sid is left
\* as it was.
OthersUnchanged(sid) ==
  /\ \A i \in DOMAIN active_connections :
       active_connections[i].sid # sid
       => (/\ i \in DOMAIN active_connections'
           /\ active_connections'[i] = active_connections[i])
  /\ Len(active_connections') = Len(active_connections)
  /\ \A i \in EditorSessions : i # sid => session_info'[i] = session_info[i]

\* C25: send_message always returns; for a session id without connection
\* it changes nothing and sends nothing; a send that fails removes the
\* connection and the metadata of that session and leaves every other
\* session as it was, a send that works delivers the message and changes
\* nothing in the manager.
C25_SendBestEffort ==
  [][/\ (sendPc = "idle" /\ sendPc' # "idle"
         /\ ~HasConnection(active_connections, sendSid'))
        => (/\ sendPc' = "returned"
            /\ UNCHANGED <<registryVars, outbox>>)
     /\ (sendPc = "sending" /\ sendPc' # "sending")
        => /\ sendPc' = "returned"
           /\ IF Sendable(sendTarget)
              THEN /\ UNCHANGED registryVars
                   /\ outbox' = [outbox EXCEPT ![sendTarget] =
                                   Append(@, "steps_recorded")]
              ELSE /\ sendSid \notin Connected'
                   /\ sendSid \notin WithInfo'
                   /\ OthersUnchanged(sendSid)
                   /\ UNCHANGED outbox]_vars

\* A send has failed and disconnected its session while another session is
\* connected.
C25_Witness ==
  /\ sendPc = "returned"
  /\ sendOutcome = "disconnected"
  /\ sendSid \notin Connected
  /\ \E i \in EditorSessions : i # sendSid /\ i \in Connected /\ i \in WithInfo

\* C26: broadcast raises nothing, whatever its sends do.
C26_BroadcastRaisesNothing == bcPc # "raised"

\* The client messages whose type the dispatch of the specification names.
NamedTypes == {"ping", "update_status", "recording_event"}

PassedRunning(t) ==
  \E r \in Runs :
    runTask[r] = t /\ pc[r] = "scheduled" /\ pc'[r] # "scheduled"

\* C28: the stored status of a task changes only from pending to running
\* and from running to completed, failed or cancelled; a finished task may
\* be started again.
C28_Lifecycle ==
  [][\A t \in TaskIds :
       status'[t] # status[t]
       => \/ status[t] = "none" /\ status'[t] = "pending"
          \/ status[t] = "pending" /\ status'[t] = "running"
          \/ status[t] = "running" /\ status'[t] \in TerminalStatus
          \/ status[t] \in TerminalStatus /\ status'[t] = "running"
          \/ PassedRunning(t) /\ status'[t] \in TerminalStatus]_vars

\* C29: the execution record a run has written is there for as long as the
\* run is in flight: no other run of its service overwrites or removes it.
C29_RecordOwnedByRun ==
  \A r \in Runs :
    pc[r] = "launching"
    => get_execution_status(active_executions, runSvc[r], runExec[r]) # {}

\* C30: a single run is scheduled only for a task that exists and is not
\* running at the time of the request; a request that is answered with an
\* error is answered not found only when a row is missing and already
\* running only when a task is running, and it schedules nothing and leaves
\* every task row, run, record and session as it was.
C30_RunningRejected ==
  [][/\ \A t \in TaskIds :
          (\E r \in Runs : /\ pc[r] = "free" /\ pc'[r] = "scheduled"
                           /\ runTask'[r] = t
                           /\ runExec'[r] = ExecId("exec", t))
          => status[t] \notin {"none", "running"}
     /\ executeReply' # NoReply
        => /\ UNCHANGED <<rowVars, runVars, batchVars, active_executions,
                          active_browsers>>
           /\ executeReply' = "not_found"
              => \E t \in TaskIds : status[t] = "none"
           /\ executeReply' = "already_running"
              => \E t \in TaskIds : status[t] = "running"]_vars

\* An execute request was answered "already running" while a run of the
\* task is in flight and a run slot is free.
C30_Witness ==
  /\ executeReply = "already_running"
  /\ nextRun <= MaxRuns
  /\ \E r \in Runs : pc[r] = "launching" /\ status[runTask[r]] = "running"

\* C32: a task that stop_task has set to cancelled is left cancelled by the
\* engine.  A run that was in flight when the task was stopped leaves the
\* status cancelled when it ends, and the start of a member run queued by a
\* batch leaves a cancelled task cancelled.
C32_CancelledKept ==
  [][\A r \in Runs :
       LET t == runTask[r] IN
         /\ (/\ pc[r] = "launching" /\ pc'[r] = "done"
             /\ cancelledInFlight[r] /\ status[t] = "cancelled")
            => status'[t] = "cancelled"
         /\ (/\ pc[r] = "scheduled" /\ pc'[r] # "scheduled"
             /\ runExec[r] = ExecId("member", t)
             /\ status[t] = "cancelled")
            => status'[t] = "cancelled"]_vars

\* C35: a launch that raises leaves the session registry as it was before
\* the launch.
C35_FailedLaunchLeavesNothing ==
  [][\A l \in Launches :
       (lpc[l] = "launching" /\ lpc'[l] = "done" /\ lret'[l] = "raised")
       => active_browsers' = active_browsers]_vars

\* C36: a session has a browser_sessions row with is_active true exactly
\* when its handle is in the registry of the manager.
C36_RowsAgreeWithRegistry ==
  \A i \in Launches :
    browser_sessions[i] = "active"
    <=> \E m \in Managers : i \in active_browsers[m]

\* C34: when the handler of a connection ends while its session id is
\* registered to another, newer connection, the newer connection and the
\* metadata of the session are left as they are.
C34_StaleEndKeepsNewer ==
  [][\A w \in Sockets :
       (/\ wsPc[w] = "receiving" /\ wsPc'[w] = "ended"
        /\ HasConnection(active_connections, wsSid[w])
        /\ ConnectionOf(active_connections, wsSid[w]) # w)
       => /\ HasConnection(active_connections', wsSid[w])
          /\ session_info'[wsSid[w]] = session_info[wsSid[w]]]_vars

\* C33: when a run has returned, the task's stored status is not running
\* unless another run of the task is in flight, and no execution record
\* with status running is left under the run's execution id unless another
\* run with the same id on the same service is in flight.
C33_NothingLeftRunning ==
  \A r \in Runs :
    pc[r] = "done"
    => /\ (\A q \in Runs : runTask[q] = runTask[r] => pc[q] = "done")
          => status[runTask[r]] # "running"
       /\ (\A q \in Runs :
             (runSvc[q] = runSvc[r] /\ runExec[q] = runExec[r])
             => pc[q] = "done")
          => \A x \in get_execution_status(active_executions, runSvc[r],
                                           runExec[r]) :
               x.status # "running"

\* C37: the status stopped that stop_execution has written to a record is
\* final: no later step replaces it by completed.
C37_StoppedIsFinal ==
  [][\A x \in active_executions :
       x.status = "stopped"
       => \A y \in active_executions' :
            (y.svc = x.svc /\ y.eid = x.eid) => y.status # "completed"]_vars

\* C38: stop_task returns true exactly for a row whose status is running
\* or pending, and then the status is cancelled; when it returns false
\* (the row is completed, failed, cancelled or missing) the row is as it
\* was, status, timestamps and error message.
C38_StopTaskFrame ==
  [][stopReply' # NoReply
     => IF task.present /\ task.status \in {"running", "pending"}
        THEN /\ stopReply' = "true"
             /\ task'.status = "cancelled"
        ELSE /\ stopReply' = "false"
             /\ task' = task]_vars

\* stop_task returned false on a failed row that carries a start time, a
\* completion time and an error message.
C38_Witness ==
  /\ stopReply = "false"
  /\ task.present /\ task.status = "failed"
  /\ task.started_at # <<>> /\ task.completed_at # <<>>
  /\ task.error_message # NoMsg

\* The recording stored under a session id numbers its steps 0, 1, 2, ...
\* in order and counts them in step_counter.
WellNumbered(rec) ==
  /\ rec.step_counter = Len(rec.steps)
  /\ \A i \in DOMAIN rec.steps : rec.steps[i].step_number = i - 1

\* C39: every recording has step_counter equal to the number of its steps
\* and its steps numbered 0, 1, 2, ... in order; record_step returns true
\* only on a recording that is active, appending one step to it and
\* leaving the other recordings alone, and when it returns false (the
\* recording is unknown or stopped) the recordings are as they were.
C39_RecorderCounts ==
  /\ [](\A i \in RecSessions : WellNumbered(active_recordings[i]))
  /\ [][recReply'.op = "record"
        => LET sid == recReply'.sid
               rec == active_recordings[sid]
           IN IF rec.present /\ rec.is_recording
              THEN /\ recReply'.ret = "true"
                   /\ Len(active_recordings'[sid].steps) = Len(rec.steps) + 1
                   /\ SubSeq(active_recordings'[sid].steps, 1, Len(rec.steps))
                        = rec.steps
                   /\ \A j \in RecSessions \ {sid} :
                        active_recordings'[j] = active_recordings[j]
              ELSE /\ recReply'.ret = "false"
                   /\ active_recordings' = active_recordings]_vars

\* record_step returned false on a stopped recording that holds the steps
\* recorded while it was active.
C39_Witness ==
  /\ recReply.op = "record" /\ recReply.ret = "false"
  /\ LET rec == active_recordings[recReply.sid] IN
       /\ rec.present /\ ~rec.is_recording
       /\ Len(rec.steps) = MaxRecorded - 1
       /\ rec.step_counter = MaxRecorded - 1

\* The preview call has ended.
PreviewEnded == pvPc \in {"returned", "raised"}

\* C31: in a preview every step that was dispatched has its entry in the
\* results, only the last entry can be a failure (no step is dispatched
\* after a failing one), executed_steps is the number of success entries,
\* and a finished run dispatched every step unless one failed or the
\* navigation raised; a call that has ended after its session was launched
\* has called close_session on it, and the session is out of the registry
\* unless the library's close raised; no step of the call changes a task's
\* status or counters.
C31_PreviewStopsAndCloses ==
  /\ [](/\ pvTrace.dispatched = Len(pvResults)
        /\ \A i \in DOMAIN pvResults :
             /\ pvResults[i].step = i
             /\ ~pvResults[i].success => i = Len(pvResults)
        /\ pvExecuted
             = Cardinality({i \in DOMAIN pvResults : pvResults[i].success})
        /\ pvPc = "returned"
           => \/ Len(pvResults) = Len(pvSteps)
              \/ \E i \in DOMAIN pvResults : ~pvResults[i].success
        /\ (PreviewEnded /\ pvTrace.launched)
           => /\ pvTrace.closeCalled
              /\ pvTrace.closeLibOk => PreviewSession \notin pvRegistry)
  /\ [][pvPc' # pvPc
        => UNCHANGED <<status, error_message, execution_count, success_count,
                       failure_count>>]_vars

\* A preview of an existing two-step task whose first step failed has
\* returned: one failure entry, nothing executed, the session closed.
C31_Witness ==
  /\ pvPc = "returned"
  /\ status[pvTask] = "pending"
  /\ Len(pvSteps) = MaxPreviewSteps
  /\ Len(pvResults) = 1 /\ ~pvResults[1].success
  /\ pvExecuted = 0
  /\ pvTrace.launched /\ pvTrace.closeCalled
  /\ PreviewSession \notin pvRegistry

====
